---- MODULE Spec2Model ----
(***************************************************************************)
(* A model of cleancopywriter's html document collection and of the        *)
(* cleancopy templatifier (html/templatifiers/clc.py).                     *)
(*                                                                         *)
(* Python values are modelled as records carrying a "type" field, so that  *)
(* isinstance() is a test on that field and None is a value comparable to  *)
(* every other one.  Templates (the render tree) carry a "tpl" field.      *)
(* An exception raised by a call is the value Raise(exc) returned in place *)
(* of the result; it propagates through every caller.                      *)
(***************************************************************************)
EXTENDS Integers, Sequences, FiniteSets, TLC

VARIABLES
    _documents,       \* HtmlDocumentCollection._documents: entries, insertion order
    target_resolver,  \* the link target resolver the collection was built with
    plugin_manager,   \* the plugin registry the collection was built with
    op,               \* the last call made, with its arguments
    ret,              \* what that call returned (None when it raised)
    exc,              \* the exception that call raised ("none" otherwise)
    resolver_calls,   \* the targets handed to target_resolver during that call
    plugin_calls,     \* the plugins invoked during that call, in order
    pc,               \* per thread: position inside add()
    lock,             \* the thread holding the caller's mutex around add()
    pending,          \* per thread: arguments and locals of its add() call
    completed,        \* history: the add() calls that returned normally
    input             \* the node and collaborators given to one transformation

vars == <<_documents, target_resolver, plugin_manager, op, ret, exc,
          resolver_calls, plugin_calls, pc, lock, pending, completed, input>>

(***************************************************************************)
(* Bounds of the model.                                                    *)
(***************************************************************************)
NumIds == 2
MaxBody == 2
NegativeDepths == 3
MaxHeadingDepth == 8
MaxRegistrations == 1
MaxTraversals == 2
NumThreads == 2
MaxDepth == 2
MaxPlugins == 2
MaxTransforms == 2
MaxItems == 3

(***************************************************************************)
(* Python values.  A call that returns a list raises by returning the      *)
(* one-element list <<Raise(exc)>>.                                        *)
(***************************************************************************)
None == [type |-> "NoneType"]

Return(v) == [tpl |-> "RETURNED", value |-> v]

Str(s) == [type |-> "str", value |-> s]

IntVal(n) == [type |-> "int", value |-> n]

PyBool(b) == [type |-> "bool", value |-> b]

Raise(e) == [tpl |-> "RAISED", cls |-> "RAISED", exc |-> e]

IsRaised(x) == "tpl" \in DOMAIN x /\ x.tpl = "RAISED"

RECURSIVE FirstRaised(_)
\* The exception a sequence of evaluations ends with: the first one raised.
FirstRaised(results) ==
    IF results = <<>> THEN None
    ELSE IF IsRaised(Head(results)) THEN Head(results)
    ELSE FirstRaised(Tail(results))

AnyRaised(results) == \E i \in 1..Len(results) : IsRaised(results[i])

RECURSIVE Concat(_)
Concat(seqs) ==
    IF seqs = <<>> THEN <<>> ELSE Head(seqs) \o Concat(Tail(seqs))

(***************************************************************************)
(* cleancopy AST values (the node model of the external parser).           *)
(***************************************************************************)
StrDataType(v) == [type |-> "StrDataType", value |-> v]
NullDataType == [type |-> "NullDataType", value |-> None]
ReferenceDataType(v) == [type |-> "ReferenceDataType", value |-> v]
MentionDataType(v) == [type |-> "MentionDataType", value |-> v]
TagDataType(v) == [type |-> "TagDataType", value |-> v]
VariableDataType(v) == [type |-> "VariableDataType", value |-> v]

InlineFormatting(name) == [type |-> "InlineFormatting", name |-> name]

InlineFormattingNames ==
    {"PRE", "UNDERLINE", "STRONG", "EMPHASIS", "STRIKE", "QUOTE"}

\* metadata is an insertion-ordered mapping: a sequence of <<key, value>>
InlineNodeInfo(formatting, target, metadata) ==
    [type |-> "InlineNodeInfo", formatting |-> formatting, target |-> target,
     metadata |-> metadata]

BlockNodeInfo(embed, metadata) ==
    [type |-> "BlockNodeInfo", embed |-> embed, metadata |-> metadata]

RichtextInlineNode(content, info) ==
    [type |-> "RichtextInlineNode", content |-> content, info |-> info]

Annotation(content) == [type |-> "Annotation", content |-> content]

ListItem(index, content) ==
    [type |-> "ListItem", index |-> index, content |-> content]

List_(type_, content) ==
    [type |-> "List_", type_ |-> type_, content |-> content]

Paragraph(content) == [type |-> "Paragraph", content |-> content]

RichtextBlockNode(depth, title, content, info) ==
    [type |-> "RichtextBlockNode", depth |-> depth, title |-> title,
     content |-> content, info |-> info]

EmbeddingBlockNode(depth, title, content, info) ==
    [type |-> "EmbeddingBlockNode", depth |-> depth, title |-> title,
     content |-> content, info |-> info]

ClcDocument(root, info) == [type |-> "Document", root |-> root, info |-> info]

MetadataHas(metadata, key) ==
    \E i \in 1..Len(metadata) : metadata[i][1] = key

MetadataGet(metadata, key) ==
    metadata[CHOOSE i \in 1..Len(metadata) : metadata[i][1] = key][2]

(***************************************************************************)
(* Generic html templates (html/generic_templates.py).                     *)
(***************************************************************************)
HtmlGenericElement(tag, attrs, body) ==
    [tpl |-> "HtmlGenericElement", tag |-> tag, attrs |-> attrs, body |-> body]

HtmlAttr(key, value) == [tpl |-> "HtmlAttr", key |-> key, value |-> value]

PlaintextTemplate(text) == [tpl |-> "PlaintextTemplate", text |-> text]

\* str(index) of an int
str_of_int(n) == ToString(n)

listitem_factory(index, body) ==
    IF index = None THEN HtmlGenericElement("li", <<>>, body)
    ELSE HtmlGenericElement(
            "li", <<HtmlAttr("value", str_of_int(index.value))>>, body)

\* a link that writes its target twice
link_factory_doubled(body, href) ==
    HtmlGenericElement(
        "a", <<HtmlAttr("href", href), HtmlAttr("href", href)>>, body)

link_factory(body, href) ==
    HtmlGenericElement("a", <<HtmlAttr("href", href)>>, body)

heading_level_unclamped(depth) ==
    depth + 1

heading_level(depth) ==
    IF depth < 0 THEN 1
    ELSE IF depth > 5 THEN 6
    ELSE depth + 1

heading_factory(depth, body) ==
    HtmlGenericElement("h" \o ToString(heading_level(depth)), <<>>, body)

\* html.escape(s, quote=True) on the strings of the model
html_escape(s) ==
    CASE s = "a<b" -> "a&lt;b"
      [] s = "it's" -> "it&#x27;s"
      [] OTHER -> s

(***************************************************************************)
(* The cleancopy templatifier (html/templatifiers/clc.py).                 *)
(***************************************************************************)
INLINE_PRE_CLASSNAME == "clc-fmt-pre"
UNDERLINE_TAGNAME == "clc-ul"

DATATYPE_NAMES(type) ==
    CASE type = "StrDataType" -> "str"
      [] type = "IntDataType" -> "int"
      [] type = "DecimalDataType" -> "dec"
      [] type = "BoolDataType" -> "bool"
      [] type = "NullDataType" -> "null"
      [] type = "MentionDataType" -> "@"
      [] type = "TagDataType" -> "#"
      [] type = "VariableDataType" -> "%"
      [] type = "ReferenceDataType" -> "&"

ClcMetadataTemplate(type_, key, value) ==
    [tpl |-> "ClcMetadataTemplate", type_ |-> type_, key |-> key,
     value |-> value]

\* a flattening whose result list outlives the call and keeps growing
ClcMetadataTemplate_from_ast_node_accumulating(node) ==
    LET entries ==
            [i \in 1..Len(node.metadata) |->
                ClcMetadataTemplate(
                    DATATYPE_NAMES(node.metadata[i][2].type),
                    node.metadata[i][1], "")]
    IN  IF completed = <<>> THEN entries ELSE entries \o entries

ClcMetadataTemplate_from_ast_node(node) ==
    [i \in 1..Len(node.metadata) |->
        LET key == node.metadata[i][1]
            datatyped_value == node.metadata[i][2]
        IN  IF datatyped_value.type = "NullDataType"
            THEN ClcMetadataTemplate(
                    DATATYPE_NAMES(datatyped_value.type), key, "")
            ELSE ClcMetadataTemplate(
                    DATATYPE_NAMES(datatyped_value.type), key,
                    html_escape(datatyped_value.value))]

\* getattr(value, fieldname); a field the model leaves out is None
getattr(value, fieldname) ==
    IF fieldname \in DOMAIN value THEN value[fieldname] ELSE None

\* the order of str on the field names of the model
FieldRank(fieldname) ==
    CASE fieldname = "embed" -> 1
      [] fieldname = "fallback" -> 2
      [] fieldname = "id" -> 3
      [] fieldname = "is_doc_metadata" -> 4
      [] fieldname = "target" -> 5

\* str.lower() on the enum member names of the model
lower(name) ==
    CASE name = "VISIBLE_PREFORMATTED" -> "visible_preformatted"
      [] name = "HIDDEN" -> "hidden"
      [] OTHER -> name

\* fieldname.replace('_', '-')
replace_underscores(fieldname) ==
    CASE fieldname = "is_doc_metadata" -> "is-doc-metadata"
      [] OTHER -> fieldname

\* _transform_spec_metadatas_block, lines 84-99: whether the field raises
spec_metadata_raises(fieldname, field_value) ==
    /\ fieldname \notin {"formatting", "fallback"}
    /\ field_value.type \in {"MentionDataType", "TagDataType",
                             "VariableDataType", "ReferenceDataType"}

\* _transform_spec_metadatas_block, lines 84-101: coerced_field_value
coerced_field_value(fieldname, field_value) ==
    IF fieldname \in {"formatting", "fallback"} THEN lower(field_value.name)
    ELSE html_escape(field_value.value)

RECURSIVE spec_metadatas_block(_, _)
\* _transform_spec_metadatas_block, lines 74-103: the dict spec_metadatas as
\* the sequence of its items in insertion order; magic holds the member
\* names of BlockMetadataMagic in definition order
spec_metadatas_block(value, magic) ==
    IF magic = <<>> THEN [raised |-> FALSE, items |-> <<>>]
    ELSE IF Head(magic) = "is_doc_metadata"
    THEN spec_metadatas_block(value, Tail(magic))
    ELSE IF getattr(value, Head(magic)) = None
    THEN spec_metadatas_block(value, Tail(magic))
    ELSE IF spec_metadata_raises(Head(magic), getattr(value, Head(magic)))
    THEN [raised |-> TRUE, items |-> <<>>]
    ELSE [raised |-> spec_metadatas_block(value, Tail(magic)).raised,
          items |->
            <<[key |-> Head(magic),
               value |-> coerced_field_value(
                    Head(magic), getattr(value, Head(magic)))]>>
            \o spec_metadatas_block(value, Tail(magic)).items]

\* a loop over the dict itself, in insertion order
unsorted_fields(items) == items

\* for fieldname in sorted(spec_metadatas): the items in the order of
\* their keys
sorted_fields(items) ==
    IF items = <<>> THEN <<>>
    ELSE LET order ==
                CHOOSE seq \in [1..Len(items) -> 1..Len(items)] :
                    /\ \A i, j \in 1..Len(items) : i # j => seq[i] # seq[j]
                    /\ \A i, j \in 1..Len(items) :
                            i < j => FieldRank(items[seq[i]].key)
                                        <= FieldRank(items[seq[j]].key)
         IN  [i \in 1..Len(items) |-> items[order[i]]]

RECURSIVE join_fields(_)
\* ' '.join(to_join), after the empty first string
join_fields(fields) ==
    IF fields = <<>> THEN ""
    ELSE " " \o replace_underscores(Head(fields).key) \o "=\""
            \o Head(fields).value \o "\"" \o join_fields(Tail(fields))

\* the text the nodeinfo field of a block template renders as; called only
\* where no field raises
_transform_spec_metadatas_block(value, magic) ==
    IF value = None THEN ""
    ELSE join_fields(sorted_fields(spec_metadatas_block(value, magic).items))

formatting_factory(spectype, body) ==
    CASE spectype.name = "PRE" ->
            HtmlGenericElement(
                "code", <<HtmlAttr("class", INLINE_PRE_CLASSNAME)>>, body)
      [] spectype.name = "UNDERLINE" ->
            HtmlGenericElement(UNDERLINE_TAGNAME, <<>>, body)
      [] spectype.name = "STRONG" -> HtmlGenericElement("strong", <<>>, body)
      [] spectype.name = "EMPHASIS" -> HtmlGenericElement("em", <<>>, body)
      [] spectype.name = "STRIKE" -> HtmlGenericElement("s", <<>>, body)
      [] spectype.name = "QUOTE" -> HtmlGenericElement("q", <<>>, body)
      [] OTHER -> Raise("TypeError")

\* a wrapping that consults the resolver for every target, literal or not
_wrap_in_richtext_context_resolves_always(info) ==
    IF info.target = None THEN <<>>
    ELSE <<info.target>>

\* The targets _wrap_in_richtext_context hands to doc_coll.target_resolver
_wrap_in_richtext_context_resolves(info) ==
    IF info.target = None THEN <<>>
    ELSE IF info.target.type = "StrDataType" THEN <<>>
    ELSE <<info.target>>

\* a wrapping in the other order: the link first, the formatting around it
_wrap_in_richtext_context_link_inside(contained_content, info, doc_coll) ==
    LET resolved == doc_coll.target_resolver[info.target]
        href ==
            IF info.target.type = "StrDataType" THEN info.target.value
            ELSE resolved.value
        linked ==
            IF info.target = None THEN contained_content
            ELSE <<link_factory(contained_content, href)>>
    IN  IF info.target # None /\ info.target.type # "StrDataType"
           /\ IsRaised(resolved)
        THEN <<resolved>>
        ELSE IF info.formatting = None THEN linked
        ELSE <<formatting_factory(info.formatting, linked)>>

_wrap_in_richtext_context(contained_content, info, doc_coll) ==
    LET formatted ==
            IF info.formatting # None
            THEN formatting_factory(info.formatting, contained_content)
            ELSE None
        wrapped ==
            IF info.formatting # None THEN <<formatted>>
            ELSE contained_content
        resolved == doc_coll.target_resolver[info.target]
        href ==
            IF info.target.type = "StrDataType" THEN info.target.value
            ELSE resolved.value
    IN  IF info.formatting # None /\ IsRaised(formatted) THEN <<formatted>>
        ELSE IF info.target = None THEN wrapped
        ELSE IF info.target.type # "StrDataType" /\ IsRaised(resolved)
        THEN <<resolved>>
        ELSE <<link_factory(wrapped, href)>>

(***************************************************************************)
(* Plugins (html/plugin_types.py).  A plugin is a record naming the        *)
(* callable; Call*Plugin is what calling it returns.                       *)
(***************************************************************************)
\* a Python list held where None is also allowed
PyList(items) == [type |-> "list", items |-> items]

PluginInjection(widgets, attrs) ==
    [type |-> "PluginInjection", widgets |-> widgets, attrs |-> attrs]

Plugin(plugin_name, behaviour) ==
    [plugin_name |-> plugin_name, behaviour |-> behaviour]

\* str.startswith('code') on the embed types of the model
startswith_code(embedding_type) ==
    embedding_type \in {"code", "code/python"}

\* "fake" is the tests' FakeEmbeddingsPlugin; "named" injects its own name,
\* "none" declines every node.
CallEmbeddingsPlugin(plugin, node, embedding_type) ==
    CASE plugin.behaviour = "fake" ->
            IF startswith_code(embedding_type)
            THEN PluginInjection(
                    PyList(<<PlaintextTemplate(embedding_type)>>),
                    PyList(<<HtmlAttr("with", "attr")>>))
            ELSE None
      [] plugin.behaviour = "named" ->
            PluginInjection(
                PyList(<<PlaintextTemplate(plugin.plugin_name)>>),
                PyList(<<HtmlAttr("by", plugin.plugin_name)>>))
      [] OTHER -> None

\* "fake" is the tests' FakeClcPlugin; "named" injects its own name, "empty"
\* returns PluginInjection(), "none" declines every node.
CallClcPlugin(plugin, node) ==
    CASE plugin.behaviour = "fake" ->
            IF /\ node.type \in {"RichtextBlockNode", "EmbeddingBlockNode",
                                 "RichtextInlineNode"}
               /\ node.info # None
               /\ MetadataHas(node.info.metadata, "id")
            THEN PluginInjection(
                    None,
                    PyList(<<HtmlAttr(
                        "id", MetadataGet(node.info.metadata, "id").value)>>))
            ELSE None
      [] plugin.behaviour = "named" ->
            PluginInjection(
                PyList(<<PlaintextTemplate(plugin.plugin_name)>>),
                PyList(<<HtmlAttr(plugin.plugin_name, "attr")>>))
      [] plugin.behaviour = "empty" -> PluginInjection(None, None)
      [] OTHER -> None

get_embeddings_plugins(manager, embedding_type) == manager.embeddings_plugins

get_clc_plugins(manager, node_type) == manager.clc_plugins

InjectionAttrs(injection) ==
    IF injection = None THEN <<>>
    ELSE IF injection.attrs = None THEN <<>>
    ELSE injection.attrs.items

InjectionWidgets(injection) ==
    IF injection = None THEN <<>>
    ELSE IF injection.widgets = None THEN <<>>
    ELSE injection.widgets.items

\* Structural plugins are cumulative: every plugin registered for the node
\* type is called, in registration order.
ClcPluginsInvoked(node, doc_coll) ==
    get_clc_plugins(doc_coll.plugin_manager, node.type)

\* the injections taken last plugin first
ClcPluginInjectionsReversed(node, doc_coll) ==
    LET plugins == ClcPluginsInvoked(node, doc_coll)
    IN  [i \in 1..Len(plugins) |->
            CallClcPlugin(plugins[Len(plugins) + 1 - i], node)]

ClcPluginInjections(node, doc_coll) ==
    LET plugins == ClcPluginsInvoked(node, doc_coll)
    IN  [i \in 1..Len(plugins) |-> CallClcPlugin(plugins[i], node)]

\* a merge that leaves an empty widget behind for every injection returned
ApplyClcPlugins_marking(node, template, doc_coll) ==
    IF IsRaised(template) THEN template
    ELSE LET injections == ClcPluginInjections(node, doc_coll)
         IN  [template EXCEPT
                !.plugin_attrs = @ \o Concat(
                    [i \in 1..Len(injections) |->
                        InjectionAttrs(injections[i])]),
                !.plugin_widgets = @ \o Concat(
                    [i \in 1..Len(injections) |->
                        IF injections[i] = None THEN <<>>
                        ELSE InjectionWidgets(injections[i])
                                \o <<PlaintextTemplate("")>>])]

\* The injections are merged into the template the node's own transformation
\* built: their attrs and widgets are appended, nothing else is touched.
ApplyClcPlugins(node, template, doc_coll) ==
    IF IsRaised(template) THEN template
    ELSE LET injections == ClcPluginInjections(node, doc_coll)
         IN  [template EXCEPT
                !.plugin_attrs = @ \o Concat(
                    [i \in 1..Len(injections) |->
                        InjectionAttrs(injections[i])]),
                !.plugin_widgets = @ \o Concat(
                    [i \in 1..Len(injections) |->
                        InjectionWidgets(injections[i])])]

embedding_type_of(node) ==
    IF node.info = None THEN None ELSE node.info.embed

RECURSIVE EmbeddingsPluginsInvokedFrom(_, _, _)
\* Embeddings plugins short-circuit: they are called in order up to and
\* including the first one that returns an injection.
\* an invocation that never stops early
EmbeddingsPluginsInvokedExhaustively(plugins, node, embedding_type) == plugins

EmbeddingsPluginsInvokedFrom(plugins, node, embedding_type) ==
    IF plugins = <<>> THEN <<>>
    ELSE IF CallEmbeddingsPlugin(Head(plugins), node, embedding_type) # None
    THEN <<Head(plugins)>>
    ELSE <<Head(plugins)>>
         \o EmbeddingsPluginsInvokedFrom(Tail(plugins), node, embedding_type)

EmbeddingsPluginsInvoked(node, doc_coll) ==
    IF embedding_type_of(node) = None THEN <<>>
    ELSE EmbeddingsPluginsInvokedFrom(
            get_embeddings_plugins(
                doc_coll.plugin_manager, embedding_type_of(node).value),
            node, embedding_type_of(node).value)

\* The injection of the last plugin invoked, when it returned one
EmbeddingsPluginInjection(node, doc_coll) ==
    LET invoked == EmbeddingsPluginsInvoked(node, doc_coll)
    IN  IF invoked = <<>> THEN None
        ELSE CallEmbeddingsPlugin(
                invoked[Len(invoked)], node, embedding_type_of(node).value)

\* an application that lets the injection replace the header too
ApplyEmbeddingsPluginsWholesale(node, template, doc_coll) ==
    IF IsRaised(template) THEN template
    ELSE LET injection == EmbeddingsPluginInjection(node, doc_coll)
         IN  IF injection = None THEN template
             ELSE [template EXCEPT
                    !.title = <<>>,
                    !.metadata = <<>>,
                    !.body = <<>>,
                    !.plugin_attrs = @ \o InjectionAttrs(injection),
                    !.plugin_widgets = @ \o InjectionWidgets(injection)]

\* An embeddings plugin that returns an injection replaces the fallback
\* rendering of the embedding (the <pre> dump of its raw content).
ApplyEmbeddingsPlugins(node, template, doc_coll) ==
    IF IsRaised(template) THEN template
    ELSE LET injection == EmbeddingsPluginInjection(node, doc_coll)
         IN  IF injection = None THEN template
             ELSE [template EXCEPT
                    !.body = <<>>,
                    !.plugin_attrs = @ \o InjectionAttrs(injection),
                    !.plugin_widgets = @ \o InjectionWidgets(injection)]

\* a rendering that tests the index for truth instead of for None
_transform_listitem_index_truthy(value) ==
    IF value = None \/ value = IntVal(0) THEN ""
    ELSE " value=\"" \o str_of_int(value.value) \o "\""

\* The text the index field of a list item renders as
_transform_listitem_index(value) ==
    IF value = None THEN ""
    ELSE " value=\"" \o str_of_int(value.value) \o "\""

ClcRichtextInlineNodeTemplate(metadata, body, nodeinfo) ==
    [tpl |-> "ClcRichtextInlineNodeTemplate", metadata |-> metadata,
     body |-> body, nodeinfo |-> nodeinfo,
     plugin_attrs |-> <<>>, plugin_widgets |-> <<>>]

ClcParagraphTemplate(body) ==
    [tpl |-> "ClcParagraphTemplate", body |-> body,
     plugin_attrs |-> <<>>, plugin_widgets |-> <<>>]

ClcListTemplate(tag, items) ==
    [tpl |-> "ClcListTemplate", tag |-> tag, items |-> items,
     plugin_attrs |-> <<>>, plugin_widgets |-> <<>>]

ClcListItemTemplate(index, body) ==
    [tpl |-> "ClcListItemTemplate", index |-> index, body |-> body,
     plugin_attrs |-> <<>>, plugin_widgets |-> <<>>]

ClcAnnotationTemplate(text) ==
    [tpl |-> "ClcAnnotationTemplate", text |-> text,
     plugin_attrs |-> <<>>, plugin_widgets |-> <<>>]

ClcEmbeddingBlocknodeTemplate(title, metadata, body, nodeinfo) ==
    [tpl |-> "ClcEmbeddingBlocknodeTemplate", title |-> title,
     metadata |-> metadata, body |-> body, nodeinfo |-> nodeinfo,
     plugin_attrs |-> <<>>, plugin_widgets |-> <<>>]

ClcRichtextBlocknodeTemplate(title, metadata, role_if_root, body, nodeinfo) ==
    [tpl |-> "ClcRichtextBlocknodeTemplate", title |-> title,
     metadata |-> metadata, role_if_root |-> role_if_root, body |-> body,
     nodeinfo |-> nodeinfo,
     plugin_attrs |-> <<>>, plugin_widgets |-> <<>>]

\* In the operators below `templatified` holds, for each child of the node,
\* what the recursive from_ast_node call on that child returns; `title` holds
\* what the call on the node's title returns.

\* an inline transformation that renders what it can of an invalid segment
ClcRichtextInlineNodeTemplate_lenient(node, templatified, doc_coll) ==
    LET contained_content ==
            [i \in 1..Len(node.content) |->
                IF node.content[i].type = "str"
                THEN PlaintextTemplate(node.content[i].value)
                ELSE templatified[i]]
        body ==
            _wrap_in_richtext_context(contained_content, node.info, doc_coll)
    IN  IF AnyRaised(contained_content) THEN FirstRaised(contained_content)
        ELSE IF node.info = None
        THEN ClcRichtextInlineNodeTemplate(<<>>, contained_content, None)
        ELSE IF AnyRaised(body) THEN FirstRaised(body)
        ELSE ClcRichtextInlineNodeTemplate(
                ClcMetadataTemplate_from_ast_node(node.info), body, node.info)

\* The node's own transformation: ClcRichtextInlineNodeTemplate.from_ast_node
ClcRichtextInlineNodeTemplate_structural(node, templatified, doc_coll) ==
    LET contained_content ==
            [i \in 1..Len(node.content) |->
                LET content_segment == node.content[i]
                IN  IF content_segment.type = "str"
                    THEN PlaintextTemplate(content_segment.value)
                    ELSE IF content_segment.type = "RichtextInlineNode"
                    THEN templatified[i]
                    ELSE Raise("TypeError")]
        info == node.info
        body == _wrap_in_richtext_context(contained_content, info, doc_coll)
    IN  IF AnyRaised(contained_content) THEN FirstRaised(contained_content)
        ELSE IF info = None
        THEN ClcRichtextInlineNodeTemplate(<<>>, contained_content, None)
        ELSE IF AnyRaised(body) THEN FirstRaised(body)
        ELSE ClcRichtextInlineNodeTemplate(
                ClcMetadataTemplate_from_ast_node(info), body, info)

ClcRichtextInlineNodeTemplate_from_ast_node(node, templatified, doc_coll) ==
    ApplyClcPlugins(
        node,
        ClcRichtextInlineNodeTemplate_structural(node, templatified, doc_coll),
        doc_coll)

ClcAnnotationTemplate_structural(node, doc_coll) ==
    ClcAnnotationTemplate(node.content)

ClcAnnotationTemplate_from_ast_node(node, doc_coll) ==
    ApplyClcPlugins(
        node, ClcAnnotationTemplate_structural(node, doc_coll), doc_coll)

\* a paragraph that leaves its annotations out of the body
ClcParagraphTemplate_without_annotations(node, templatified, doc_coll) ==
    LET body ==
            SelectSeq(
                [i \in 1..Len(node.content) |->
                    IF node.content[i].type \in
                            {"RichtextInlineNode", "List_", "Annotation"}
                    THEN templatified[i]
                    ELSE Raise("TypeError")],
                LAMBDA rendered : rendered.tpl # "ClcAnnotationTemplate")
    IN  IF AnyRaised(body) THEN FirstRaised(body)
        ELSE ClcParagraphTemplate(body)

ClcParagraphTemplate_structural(node, templatified, doc_coll) ==
    LET body ==
            [i \in 1..Len(node.content) |->
                LET nested == node.content[i]
                IN  IF nested.type = "RichtextInlineNode" THEN templatified[i]
                    ELSE IF nested.type = "List_" THEN templatified[i]
                    ELSE IF nested.type = "Annotation" THEN templatified[i]
                    ELSE Raise("TypeError")]
    IN  IF AnyRaised(body) THEN FirstRaised(body)
        ELSE ClcParagraphTemplate(body)

ClcParagraphTemplate_from_ast_node(node, templatified, doc_coll) ==
    ApplyClcPlugins(
        node, ClcParagraphTemplate_structural(node, templatified, doc_coll),
        doc_coll)

\* a list that takes its items last item first
ClcListTemplate_reversed(node, templatified, doc_coll) ==
    LET tag == IF node.type_ = "ORDERED" THEN "ol" ELSE "ul"
        items ==
            [i \in 1..Len(node.content) |->
                templatified[Len(node.content) + 1 - i]]
    IN  IF AnyRaised(items) THEN FirstRaised(items)
        ELSE ClcListTemplate(tag, items)

ClcListTemplate_structural(node, templatified, doc_coll) ==
    LET tag == IF node.type_ = "ORDERED" THEN "ol" ELSE "ul"
        items == [i \in 1..Len(node.content) |-> templatified[i]]
    IN  IF AnyRaised(items) THEN FirstRaised(items)
        ELSE ClcListTemplate(tag, items)

ClcListTemplate_from_ast_node(node, templatified, doc_coll) ==
    ApplyClcPlugins(
        node, ClcListTemplate_structural(node, templatified, doc_coll),
        doc_coll)

ClcListItemTemplate_structural(node, templatified, doc_coll) ==
    LET body == [i \in 1..Len(node.content) |-> templatified[i]]
    IN  IF AnyRaised(body) THEN FirstRaised(body)
        ELSE ClcListItemTemplate(node.index, body)

ClcListItemTemplate_from_ast_node(node, templatified, doc_coll) ==
    ApplyClcPlugins(
        node, ClcListItemTemplate_structural(node, templatified, doc_coll),
        doc_coll)

\* The title slot of a block node: empty, or one heading around the title
block_title(node, title) ==
    IF node.title = None THEN <<>>
    ELSE IF IsRaised(title) THEN <<title>>
    ELSE <<heading_factory(node.depth, <<title>>)>>

\* a fallback that insists on content
ClcEmbeddingBlocknodeTemplate_requiring_content(node, title, doc_coll) ==
    IF node.content = None THEN Raise("TypeError")
    ELSE ClcEmbeddingBlocknodeTemplate(
            block_title(node, title),
            IF node.info # None
            THEN ClcMetadataTemplate_from_ast_node(node.info) ELSE <<>>,
            <<PlaintextTemplate(node.content.value)>>,
            node.info)

\* The fallback rendering: ClcEmbeddingBlocknodeTemplate.from_ast_node
ClcEmbeddingBlocknodeTemplate_structural(node, title, doc_coll) ==
    LET title_slot == block_title(node, title)
        body ==
            IF node.content = None THEN <<>>
            ELSE <<PlaintextTemplate(node.content.value)>>
    IN  IF AnyRaised(title_slot) THEN FirstRaised(title_slot)
        ELSE ClcEmbeddingBlocknodeTemplate(
                title_slot,
                IF node.info # None
                THEN ClcMetadataTemplate_from_ast_node(node.info) ELSE <<>>,
                body,
                node.info)

ClcEmbeddingBlocknodeTemplate_from_ast_node(node, title, doc_coll) ==
    ApplyClcPlugins(
        node,
        ApplyEmbeddingsPlugins(
            node, ClcEmbeddingBlocknodeTemplate_structural(node, title, doc_coll),
            doc_coll),
        doc_coll)

\* a block transformation that never marks the root
ClcRichtextBlocknodeTemplate_unrooted(node, title, templatified, doc_coll) ==
    LET title_slot == block_title(node, title)
        templatified_content ==
            [i \in 1..Len(node.content) |-> templatified[i]]
    IN  IF AnyRaised(title_slot) THEN FirstRaised(title_slot)
        ELSE IF AnyRaised(templatified_content)
        THEN FirstRaised(templatified_content)
        ELSE ClcRichtextBlocknodeTemplate(
                title_slot,
                IF node.info # None
                THEN ClcMetadataTemplate_from_ast_node(node.info) ELSE <<>>,
                FALSE,
                templatified_content,
                node.info)

ClcRichtextBlocknodeTemplate_structural(node, title, templatified, doc_coll) ==
    LET title_slot == block_title(node, title)
        templatified_content ==
            [i \in 1..Len(node.content) |->
                LET paragraph_or_node == node.content[i]
                IN  IF paragraph_or_node.type = "Paragraph"
                    THEN templatified[i]
                    ELSE IF paragraph_or_node.type = "EmbeddingBlockNode"
                    THEN templatified[i]
                    ELSE IF paragraph_or_node.type = "RichtextBlockNode"
                    THEN templatified[i]
                    ELSE Raise("TypeError")]
    IN  IF AnyRaised(title_slot) THEN FirstRaised(title_slot)
        ELSE IF AnyRaised(templatified_content)
        THEN FirstRaised(templatified_content)
        ELSE ClcRichtextBlocknodeTemplate(
                title_slot,
                IF node.info # None
                THEN ClcMetadataTemplate_from_ast_node(node.info) ELSE <<>>,
                node.depth <= 0,
                templatified_content,
                node.info)

ClcRichtextBlocknodeTemplate_from_ast_node(node, title, templatified, doc_coll) ==
    ApplyClcPlugins(
        node,
        ClcRichtextBlocknodeTemplate_structural(
            node, title, templatified, doc_coll),
        doc_coll)

\* from_document, given what from_ast_node returns for the root
\* a shim that puts the document's entries in front of the root block's
ClcRichtextBlocknodeTemplate_from_document_merging(node, template_instance) ==
    IF IsRaised(template_instance) THEN template_instance
    ELSE IF node.type = "Document" /\ node.info # None
    THEN [template_instance EXCEPT
            !.metadata = ClcMetadataTemplate_from_ast_node(node.info) \o @]
    ELSE template_instance

ClcRichtextBlocknodeTemplate_from_document(node, template_instance) ==
    IF IsRaised(template_instance) THEN template_instance
    ELSE IF node.type = "Document" /\ node.info # None
    THEN [template_instance EXCEPT
            !.metadata = ClcMetadataTemplate_from_ast_node(node.info)]
    ELSE template_instance

RECURSIVE templatify(_, _)
\* The type-directed dispatch: the from_ast_node of the node's type, with
\* the recursive calls on its title and children
templatify(node, doc_coll) ==
    LET templatified ==
            [i \in 1..Len(node.content) |->
                IF node.content[i].type = "str" THEN None
                ELSE templatify(node.content[i], doc_coll)]
        title ==
            IF node.title = None THEN None
            ELSE templatify(node.title, doc_coll)
    IN  CASE node.type = "Document" ->
                ClcRichtextBlocknodeTemplate_from_document(
                    node, templatify(node.root, doc_coll))
          [] node.type = "RichtextBlockNode" ->
                ClcRichtextBlocknodeTemplate_from_ast_node(
                    node, title, templatified, doc_coll)
          [] node.type = "EmbeddingBlockNode" ->
                ClcEmbeddingBlocknodeTemplate_from_ast_node(
                    node, title, doc_coll)
          [] node.type = "Paragraph" ->
                ClcParagraphTemplate_from_ast_node(node, templatified, doc_coll)
          [] node.type = "List_" ->
                ClcListTemplate_from_ast_node(node, templatified, doc_coll)
          [] node.type = "ListItem" ->
                ClcListItemTemplate_from_ast_node(node, templatified, doc_coll)
          [] node.type = "RichtextInlineNode" ->
                ClcRichtextInlineNodeTemplate_from_ast_node(
                    node, templatified, doc_coll)
          [] node.type = "Annotation" ->
                ClcAnnotationTemplate_from_ast_node(node, doc_coll)
          [] OTHER -> Raise("TypeError")

\* The node's own structural transformation, around its transformed title
\* and children: what from_ast_node builds before any plugin of the node
\* itself is consulted
from_ast_node_structural(node, doc_coll) ==
    LET templatified ==
            [i \in 1..Len(node.content) |->
                IF node.content[i].type = "str" THEN None
                ELSE templatify(node.content[i], doc_coll)]
        title ==
            IF node.title = None THEN None
            ELSE templatify(node.title, doc_coll)
    IN  CASE node.type = "RichtextBlockNode" ->
                ClcRichtextBlocknodeTemplate_structural(
                    node, title, templatified, doc_coll)
          [] node.type = "EmbeddingBlockNode" ->
                ClcEmbeddingBlocknodeTemplate_structural(node, title, doc_coll)
          [] node.type = "Paragraph" ->
                ClcParagraphTemplate_structural(node, templatified, doc_coll)
          [] node.type = "List_" ->
                ClcListTemplate_structural(node, templatified, doc_coll)
          [] node.type = "ListItem" ->
                ClcListItemTemplate_structural(node, templatified, doc_coll)
          [] node.type = "RichtextInlineNode" ->
                ClcRichtextInlineNodeTemplate_structural(
                    node, templatified, doc_coll)
          [] node.type = "Annotation" ->
                ClcAnnotationTemplate_structural(node, doc_coll)

\* The render sequence of one node
transform(node, doc_coll) == <<templatify(node, doc_coll)>>

(***************************************************************************)
(* The calls a transformation makes to the collaborators it was given, in  *)
(* the order the code makes them; it ends at the first exception.          *)
(***************************************************************************)
ResolveEvent(target) == [kind |-> "target_resolver", target |-> target]

ClcPluginEvent(plugin, node) ==
    [kind |-> "clc_plugin", plugin |-> plugin, node |-> node]

EmbeddingsPluginEvent(plugin, node) ==
    [kind |-> "embeddings_plugin", plugin |-> plugin, node |-> node]

Effects(calls, raised) == [calls |-> calls, raised |-> raised]

\* effects of one step followed by the effects of the next one
Then(first, next) ==
    IF first.raised THEN first
    ELSE Effects(first.calls \o next.calls, next.raised)

ClcPluginEffects(node, doc_coll) ==
    LET plugins == ClcPluginsInvoked(node, doc_coll)
    IN  Effects([i \in 1..Len(plugins) |-> ClcPluginEvent(plugins[i], node)],
                FALSE)

EmbeddingsPluginEffects(node, doc_coll) ==
    LET plugins == EmbeddingsPluginsInvoked(node, doc_coll)
    IN  Effects(
            [i \in 1..Len(plugins) |-> EmbeddingsPluginEvent(plugins[i], node)],
            FALSE)

_wrap_in_richtext_context_effects(info, doc_coll) ==
    LET resolves == _wrap_in_richtext_context_resolves(info)
    IN  IF /\ info.formatting # None
           /\ info.formatting.name \notin InlineFormattingNames
        THEN Effects(<<>>, TRUE)
        ELSE Effects(
                [i \in 1..Len(resolves) |-> ResolveEvent(resolves[i])],
                \E i \in 1..Len(resolves) :
                    IsRaised(doc_coll.target_resolver[resolves[i]]))

RECURSIVE TransformEffects(_, _, _)
RECURSIVE TransformEffectsOfAll(_, _, _)

\* allowed: the node types the code accepts at this position
TransformEffectsOfAll(nodes, allowed, doc_coll) ==
    IF nodes = <<>> THEN Effects(<<>>, FALSE)
    ELSE Then(TransformEffects(Head(nodes), allowed, doc_coll),
              TransformEffectsOfAll(Tail(nodes), allowed, doc_coll))

TransformEffects(node, allowed, doc_coll) ==
    LET title ==
            IF node.title = None THEN Effects(<<>>, FALSE)
            ELSE TransformEffects(
                    node.title, {"RichtextInlineNode"}, doc_coll)
        plugins == ClcPluginEffects(node, doc_coll)
    IN  CASE node.type \notin allowed -> Effects(<<>>, TRUE)
          [] node.type = "str" -> Effects(<<>>, FALSE)
          [] node.type = "RichtextInlineNode" ->
                Then(TransformEffectsOfAll(
                        node.content, {"str", "RichtextInlineNode"}, doc_coll),
                Then(IF node.info = None THEN Effects(<<>>, FALSE)
                     ELSE _wrap_in_richtext_context_effects(node.info, doc_coll),
                     plugins))
          [] node.type = "Annotation" -> plugins
          [] node.type = "Paragraph" ->
                Then(TransformEffectsOfAll(
                        node.content,
                        {"RichtextInlineNode", "List_", "Annotation"},
                        doc_coll),
                     plugins)
          [] node.type = "List_" ->
                Then(TransformEffectsOfAll(node.content, {"ListItem"}, doc_coll),
                     plugins)
          [] node.type = "ListItem" ->
                Then(TransformEffectsOfAll(node.content, {"Paragraph"}, doc_coll),
                     plugins)
          [] node.type = "EmbeddingBlockNode" ->
                Then(title,
                Then(EmbeddingsPluginEffects(node, doc_coll), plugins))
          [] node.type = "RichtextBlockNode" ->
                Then(title,
                Then(TransformEffectsOfAll(
                        node.content,
                        {"Paragraph", "EmbeddingBlockNode", "RichtextBlockNode"},
                        doc_coll),
                     plugins))
          [] node.type = "Document" ->
                TransformEffects(node.root, {"RichtextBlockNode"}, doc_coll)

AllNodeTypes ==
    {"Document", "RichtextBlockNode", "EmbeddingBlockNode", "Paragraph",
     "List_", "ListItem", "RichtextInlineNode", "Annotation"}

RECURSIVE SelectKinds(_, _)
SelectKinds(calls, kinds) ==
    IF calls = <<>> THEN <<>>
    ELSE IF Head(calls).kind \in kinds
    THEN <<Head(calls)>> \o SelectKinds(Tail(calls), kinds)
    ELSE SelectKinds(Tail(calls), kinds)

ResolverCallsOf(calls) ==
    LET selected == SelectKinds(calls, {"target_resolver"})
    IN  [i \in 1..Len(selected) |-> selected[i].target]

PluginCallsOf(calls) == SelectKinds(calls, {"clc_plugin", "embeddings_plugin"})

(***************************************************************************)
(* Docnote summaries (html/templates.py).  A member template is modelled   *)
(* by its class and the member's name.                                     *)
(***************************************************************************)
DocText(value, markup_lang) ==
    [type |-> "DocText", value |-> value, markup_lang |-> markup_lang]

MarkupLang(name) == [type |-> "MarkupLang", name |-> name]

SummaryMetadata(extracted_inclusion, to_document, disowned) ==
    [extracted_inclusion |-> extracted_inclusion, to_document |-> to_document,
     disowned |-> disowned]

ModuleSummary(name, docstring, dunder_all, members) ==
    [type |-> "ModuleSummary", name |-> name, docstring |-> docstring,
     dunder_all |-> dunder_all, members |-> members]

SummaryTreeNode(module_summary) ==
    [type |-> "SummaryTreeNode", module_summary |-> module_summary]

\* the order of str on the names of the model
NameRank(name) ==
    CASE name = "alpha" -> 1
      [] name = "beta" -> 2
      [] name = "gamma" -> 3
      [] OTHER -> 4

\* sorted(names): the sequence of the set's names in increasing order
sorted(names) ==
    CHOOSE seq \in [1..Cardinality(names) -> names] :
        /\ \A i, j \in 1..Cardinality(names) :
                i < j => NameRank(seq[i]) < NameRank(seq[j])

\* DocnotesTransformer.should_include (html/docnotes.py)
DocnotesTransformer_should_include(metadata) ==
    IF metadata.extracted_inclusion = PyBool(TRUE) THEN TRUE
    ELSE IF metadata.extracted_inclusion = PyBool(FALSE) THEN FALSE
    ELSE metadata.to_document /\ ~metadata.disowned

\* an inclusion that never looks at extracted_inclusion
should_include_ignoring_extraction(metadata) ==
    metadata.to_document /\ ~metadata.disowned

should_include(metadata) ==
    IF metadata.extracted_inclusion = PyBool(TRUE) THEN TRUE
    ELSE IF metadata.extracted_inclusion = PyBool(FALSE) THEN FALSE
    ELSE metadata.to_document /\ ~metadata.disowned

dunder_all_factory(names) ==
    [i \in 1..Len(names) |->
        HtmlGenericElement("li", <<>>, <<PlaintextTemplate(names[i])>>)]

sort_members(members) ==
    LET names == {member.name : member \in members}
        order == sorted(names)
    IN  [i \in 1..Len(order) |->
            CHOOSE member \in members : member.name = order[i]]

get_template_cls(summary) ==
    CASE summary.type = "ModuleSummary" -> "ModuleSummaryTemplate"
      [] summary.type = "VariableSummary" -> "VariableSummaryTemplate"
      [] summary.type = "ClassSummary" -> "ClassSummaryTemplate"
      [] summary.type = "CallableSummary" -> "CallableSummaryTemplate"
      [] summary.type = "CrossrefSummary" -> "CrossrefSummaryTemplate"
      [] OTHER -> "TypeError"

RECURSIVE SelectIncluded(_)
SelectIncluded(members) ==
    IF members = <<>> THEN <<>>
    ELSE IF should_include(Head(members).metadata)
    THEN <<Head(members)>> \o SelectIncluded(Tail(members))
    ELSE SelectIncluded(Tail(members))

\* html/factories.py and html/templates.py hold the same text of
\* heading_factory as html/generic_templates.py
factories_heading_factory(depth, body) ==
    HtmlGenericElement(
        "h" \o ToString(
            IF depth < 0 THEN 1 ELSE IF depth > 5 THEN 6 ELSE depth + 1),
        <<>>, body)

templates_heading_factory(depth, body) ==
    HtmlGenericElement(
        "h" \o ToString(
            IF depth < 0 THEN 1 ELSE IF depth > 5 THEN 6 ELSE depth + 1),
        <<>>, body)

\* html/factories.py and html/templates.py hold the same text of
\* formatting_factory, with no branch for QUOTE
factories_formatting_factory(spectype, body) ==
    CASE spectype.name = "PRE" ->
            HtmlGenericElement(
                "code", <<HtmlAttr("class", INLINE_PRE_CLASSNAME)>>, body)
      [] spectype.name = "UNDERLINE" ->
            HtmlGenericElement(UNDERLINE_TAGNAME, <<>>, body)
      [] spectype.name = "STRONG" -> HtmlGenericElement("strong", <<>>, body)
      [] spectype.name = "EMPHASIS" -> HtmlGenericElement("em", <<>>, body)
      [] spectype.name = "STRIKE" -> HtmlGenericElement("s", <<>>, body)
      [] OTHER -> Raise("TypeError")

templates_formatting_factory(spectype, body) ==
    CASE spectype.name = "PRE" ->
            HtmlGenericElement(
                "code", <<HtmlAttr("class", INLINE_PRE_CLASSNAME)>>, body)
      [] spectype.name = "UNDERLINE" ->
            HtmlGenericElement(UNDERLINE_TAGNAME, <<>>, body)
      [] spectype.name = "STRONG" -> HtmlGenericElement("strong", <<>>, body)
      [] spectype.name = "EMPHASIS" -> HtmlGenericElement("em", <<>>, body)
      [] spectype.name = "STRIKE" -> HtmlGenericElement("s", <<>>, body)
      [] OTHER -> Raise("TypeError")

(***************************************************************************)
(* Literal values of docnote summaries (html/templates.py and the same     *)
(* function in html/factories.py).                                         *)
(***************************************************************************)
Crossref(module_name, toplevel_name, traversals) ==
    [type |-> "Crossref", module_name |-> module_name,
     toplevel_name |-> toplevel_name, traversals |-> traversals]

GetattrTraversal(name) == [type |-> "GetattrTraversal", name |-> name]

GetitemTraversal(key) == [type |-> "GetitemTraversal", key |-> key]

CallTraversal(args, kwargs) ==
    [type |-> "CallTraversal", args |-> args, kwargs |-> kwargs]

FallbackContainerTemplate(wraps) ==
    [tpl |-> "FallbackContainerTemplate", wraps |-> wraps]

UnlinkableCrossrefSummaryTemplate(qualname, shortname) ==
    [tpl |-> "UnlinkableCrossrefSummaryTemplate", qualname |-> qualname,
     shortname |-> shortname]

CrossrefTextTemplate(shortname, has_traversals) ==
    [tpl |-> "CrossrefTextTemplate", shortname |-> shortname,
     has_traversals |-> has_traversals]

CrossrefSummaryTemplate(qualname, traversals, crossref_target) ==
    [tpl |-> "CrossrefSummaryTemplate", qualname |-> qualname,
     traversals |-> traversals, crossref_target |-> crossref_target]

\* repr(value) on the literals of the model
repr(value) ==
    CASE value = IntVal(1) -> "1"
      [] value = PyBool(TRUE) -> "True"
      [] value = Str("x") -> "'x'"
      [] OTHER -> "b'x'"

RECURSIVE _flatten_typespec_traversals(_)
\* ''.join(_flatten_typespec_traversals(traversals))
_flatten_typespec_traversals(traversals) ==
    IF traversals = <<>> THEN ""
    ELSE (CASE Head(traversals).type = "GetattrTraversal" ->
                    "." \o Head(traversals).name
            [] Head(traversals).type = "CallTraversal" ->
                    "(*" \o Head(traversals).args \o ", **"
                        \o Head(traversals).kwargs \o ")"
            [] Head(traversals).type = "GetitemTraversal" ->
                    "[" \o Head(traversals).key \o "]")
         \o _flatten_typespec_traversals(Tail(traversals))

CrossrefSummaryTemplate_from_crossref(crossref) ==
    CrossrefSummaryTemplate(
        IF crossref.toplevel_name = None
        THEN "<Module " \o crossref.module_name.value \o ">"
        ELSE crossref.module_name.value \o ":" \o crossref.toplevel_name.value,
        IF crossref.traversals # <<>>
        THEN Str(_flatten_typespec_traversals(crossref.traversals)) ELSE None,
        <<CrossrefTextTemplate(
            IF crossref.toplevel_name = None
            THEN "<Module " \o crossref.module_name.value \o ">"
            ELSE crossref.toplevel_name.value,
            crossref.traversals # <<>>)>>)

\* a check that takes any single traversal for the member access
crossref_literal_exception_any_traversal(value) ==
    IF value.module_name = None THEN "ValueError"
    ELSE IF value.toplevel_name = None THEN "ValueError"
    ELSE IF Len(value.traversals) # 1 THEN "ValueError"
    ELSE "none"

\* the three checks of literal_value_factory on a Crossref, the same text in
\* both files: the exception they end with, "none" when they pass
crossref_literal_exception(value) ==
    IF value.module_name = None THEN "ValueError"
    ELSE IF value.toplevel_name = None THEN "ValueError"
    ELSE IF \/ Len(value.traversals) # 1
            \/ value.traversals[1].type # "GetattrTraversal"
    THEN "ValueError"
    ELSE "none"

\* the fallback of both files for a value that is no Crossref
literal_fallback(value) ==
    FallbackContainerTemplate(
        <<formatting_factory(
            InlineFormatting("PRE"), <<PlaintextTemplate(repr(value))>>)>>)

\* html/templates.py
literal_value_factory(value) ==
    IF value.type = "Crossref"
    THEN IF crossref_literal_exception(value) # "none"
         THEN Raise(crossref_literal_exception(value))
         ELSE CrossrefSummaryTemplate_from_crossref(value)
    ELSE literal_fallback(value)

\* html/factories.py
factories_literal_value_factory(value) ==
    IF value.type = "Crossref"
    THEN IF crossref_literal_exception(value) # "none"
         THEN Raise(crossref_literal_exception(value))
         ELSE UnlinkableCrossrefSummaryTemplate(
                value.module_name.value \o ":" \o value.toplevel_name.value
                    \o "." \o value.traversals[1].name,
                value.toplevel_name.value \o "." \o value.traversals[1].name)
    ELSE literal_fallback(value)

(***************************************************************************)
(* The external parser: bytes to a cleancopy document, or a syntax error.  *)
(* Text is a sequence of code points, bytes a sequence of 0..255.          *)
(***************************************************************************)
PyStr(codepoints) == [type |-> "str", value |-> codepoints]

PyBytes(octets) == [type |-> "bytes", value |-> octets]

\* str.encode('utf-8') for code points below 0x800
encode_utf8(codepoints) ==
    Concat([i \in 1..Len(codepoints) |->
        IF codepoints[i] < 128 THEN <<codepoints[i]>>
        ELSE <<192 + (codepoints[i] \div 64), 128 + (codepoints[i] % 64)>>])

\* cleancopy.parse followed by Abstractifier.convert: a document holding the
\* text as one paragraph; a text holding the octet 255 is a syntax error.
parse_and_convert(octets) ==
    IF \E i \in 1..Len(octets) : octets[i] = 255
    THEN Raise("ParseError")
    ELSE ClcDocument(
            RichtextBlockNode(
                0, None,
                IF octets = <<>> THEN <<>>
                ELSE <<Paragraph(<<RichtextInlineNode(
                            <<[type |-> "str", value |-> octets]>>, None)>>)>>,
                None),
            None)

\* a preprocessing that takes the code points of a str for its octets
preprocess_unencoded(clc_text) == parse_and_convert(clc_text.value)

preprocess(clc_text) ==
    LET encoded ==
            IF clc_text.type = "str" THEN encode_utf8(clc_text.value)
            ELSE clc_text.value
    IN  parse_and_convert(encoded)

(***************************************************************************)
(* HtmlWriter: the transformer handed a whole document or a single node.   *)
(***************************************************************************)
write_document(clc_src, doc_coll) == transform(clc_src, doc_coll)

write_node(node, doc_coll) == transform(node, doc_coll)

\* a templatifier that rejects a doc-text without a markup language
templatify_doctext_requiring_markup(doctext, for_collection) ==
    IF doctext.markup_lang # MarkupLang("CLEANCOPY")
    THEN <<Raise("ValueError")>>
    ELSE LET ast_doc == preprocess(doctext.value)
         IN  IF IsRaised(ast_doc) THEN <<ast_doc>>
             ELSE write_node(ast_doc, for_collection)

templatify_doctext(doctext, for_collection) ==
    IF doctext.markup_lang = None
    THEN <<HtmlGenericElement(
            "code", <<HtmlAttr("class", INLINE_PRE_CLASSNAME)>>,
            <<PlaintextTemplate(doctext.value)>>)>>
    ELSE IF doctext.markup_lang # MarkupLang("CLEANCOPY")
    THEN <<Raise("ValueError")>>
    ELSE LET ast_doc == preprocess(doctext.value)
         IN  IF IsRaised(ast_doc) THEN <<ast_doc>>
             ELSE write_node(ast_doc, for_collection)

\* the docstring slot as the from_summary of the class, callable and
\* signature templates fill it
summary_docstring(summary_node, for_collection) ==
    IF summary_node.docstring = None THEN <<>>
    ELSE templatify_doctext(summary_node.docstring, for_collection)

ModuleSummaryTemplate_from_summary(summary_node, for_collection) ==
    LET docstring ==
            IF summary_node.docstring = None THEN <<>>
            ELSE templatify_doctext(summary_node.docstring, for_collection)
        dunder_all ==
            IF summary_node.dunder_all = None THEN <<>>
            ELSE dunder_all_factory(sorted(summary_node.dunder_all))
        included == SelectIncluded(sort_members(summary_node.members))
        members ==
            [i \in 1..Len(included) |->
                IF get_template_cls(included[i]) = "TypeError"
                THEN Raise("TypeError")
                ELSE [tpl |-> get_template_cls(included[i]),
                      name |-> included[i].name]]
    IN  IF AnyRaised(docstring) THEN FirstRaised(docstring)
        ELSE IF AnyRaised(members) THEN FirstRaised(members)
        ELSE [tpl |-> "ModuleSummaryTemplate", fullname |-> summary_node.name,
              docstring |-> docstring, dunder_all |-> dunder_all,
              members |-> members]

(***************************************************************************)
(* HtmlDocumentCollection (html/documents.py).                             *)
(***************************************************************************)
DocnoteHtmlDocument(id_, src, intermediate_representation) ==
    [cls |-> "DocnoteHtmlDocument", id_ |-> id_, src |-> src,
     intermediate_representation |-> intermediate_representation]

ClcHtmlDocument(id_, src, intermediate_representation) ==
    [cls |-> "ClcHtmlDocument", id_ |-> id_, src |-> src,
     intermediate_representation |-> intermediate_representation]

\* a membership test that looks at the newest entry only
dict_contains_newest(documents, id_) ==
    /\ documents # <<>>
    /\ documents[Len(documents)].id_ = id_

\* id_ in self._documents
dict_contains(documents, id_) ==
    \E i \in 1..Len(documents) : documents[i].id_ = id_

\* self._documents[id_]
dict_getitem(documents, id_) ==
    documents[CHOOSE i \in 1..Len(documents) : documents[i].id_ = id_]

\* an assignment that rebinds the dict to the new entry alone
dict_setitem_clearing(documents, id_, document) == <<document>>

\* self._documents[id_] = document: a new key goes last, a key already
\* there keeps its place and takes the new value
dict_setitem(documents, id_, document) ==
    IF dict_contains(documents, id_)
    THEN [i \in 1..Len(documents) |->
            IF documents[i].id_ = id_ THEN document ELSE documents[i]]
    ELSE Append(documents, document)

\* tuple(self._documents): the keys in insertion order
\* keys that come newest first
dict_keys_newest_first(documents) ==
    [i \in 1..Len(documents) |-> documents[Len(documents) + 1 - i].id_]

dict_keys(documents) == [i \in 1..Len(documents) |-> documents[i].id_]

\* a duplicate check that never fires
add_is_duplicate_never(documents, id_) == FALSE

\* add(), line 107: the duplicate check
add_is_duplicate(documents, id_) == dict_contains(documents, id_)

\* add(), lines 116-121: the document of a docnote source, given what
\* ModuleSummaryTemplate.from_summary returned
add_docnote_document(id_, docnote_src, intermediate_representation) ==
    IF IsRaised(intermediate_representation) THEN intermediate_representation
    ELSE DocnoteHtmlDocument(id_, docnote_src, intermediate_representation)

\* add(), lines 129-138: the document of a cleancopy source, given what
\* writer.write_document returned
add_clc_document(id_, clc_src, templatified) ==
    IF AnyRaised(templatified) THEN FirstRaised(templatified)
    ELSE IF Len(templatified) # 1 THEN Raise("RuntimeError")
    ELSE ClcHtmlDocument(id_, clc_src, templatified[1])

\* a construction that takes the docnote branch whenever a docnote source is
\* given and the cleancopy branch whenever nothing else is
add_construct_lenient(id_, docnote_src, clc_src, doc_coll) ==
    IF docnote_src # None
    THEN add_docnote_document(
            id_, docnote_src,
            ModuleSummaryTemplate_from_summary(
                docnote_src.module_summary, doc_coll))
    ELSE add_clc_document(
            id_, clc_src,
            IF clc_src # None THEN write_document(clc_src, doc_coll)
            ELSE <<PlaintextTemplate("")>>)

\* add(), lines 110-143: the document built from the one source given, or
\* the exception raised
add_construct(id_, docnote_src, clc_src, doc_coll) ==
    IF docnote_src # None /\ clc_src = None
    THEN add_docnote_document(
            id_, docnote_src,
            ModuleSummaryTemplate_from_summary(
                docnote_src.module_summary, doc_coll))
    ELSE IF clc_src # None /\ docnote_src = None
    THEN add_clc_document(id_, clc_src, write_document(clc_src, doc_coll))
    ELSE Raise("TypeError")

\* an add() that keeps an empty entry for a document that failed to build
add_store_placeholder(documents, id_, document) ==
    IF document.cls = "RAISED"
    THEN [exc |-> document.exc,
          documents |->
            dict_setitem(documents, id_, ClcHtmlDocument(id_, None, None))]
    ELSE [exc |-> "none",
          documents |-> dict_setitem(documents, id_, document)]

\* add(): the assignment to self._documents, unless the construction raised
add_store(documents, id_, document) ==
    IF document.cls = "RAISED"
    THEN [exc |-> document.exc, documents |-> documents]
    ELSE [exc |-> "none",
          documents |-> dict_setitem(documents, id_, document)]

\* an add() without the check of line 107
add_unchecked(documents, id_, docnote_src, clc_src, doc_coll) ==
    add_store(
        documents, id_,
        add_construct(id_, docnote_src, clc_src, doc_coll))

\* add() as a whole: the exception it ends with and the dict it leaves
add(documents, id_, docnote_src, clc_src, doc_coll) ==
    IF add_is_duplicate(documents, id_)
    THEN [exc |-> "ValueError", documents |-> documents]
    ELSE add_store(
            documents, id_,
            add_construct(id_, docnote_src, clc_src, doc_coll))

(***************************************************************************)
(* The inputs of the model.                                                *)
(***************************************************************************)
Ids == 1..NumIds

Threads == 1..NumThreads

Targets ==
    {StrDataType("https://www.test.example"), ReferenceDataType("ref"),
     MentionDataType("someone"), TagDataType("tag"), VariableDataType("var")}

\* testserver.py: lambda *args, **kwargs: '#'
ResolverHash == [target \in Targets |-> Return("#")]

\* a resolver that gives every target a url of its own
ResolverDistinct ==
    [target \in Targets |->
        Return(CASE target.type = "StrDataType" -> "/literal"
                 [] target.type = "ReferenceDataType" -> "/ref"
                 [] target.type = "MentionDataType" -> "/mention"
                 [] target.type = "TagDataType" -> "/tag"
                 [] target.type = "VariableDataType" -> "/var")]

\* an incomplete resolver: it has no rule for variables
ResolverIncomplete ==
    [target \in Targets |->
        IF target.type = "VariableDataType" THEN Raise("NotImplementedError")
        ELSE ResolverDistinct[target]]

Resolvers == {ResolverHash, ResolverDistinct, ResolverIncomplete}

PluginManager(embeddings_plugins, clc_plugins) ==
    [embeddings_plugins |-> embeddings_plugins, clc_plugins |-> clc_plugins]

NoPlugins == PluginManager(<<>>, <<>>)

\* documents.integr8.test.py: the plugin manager of the tests
TestPlugins ==
    PluginManager(<<Plugin("myplugin1", "fake")>>, <<Plugin("clc", "fake")>>)

EmbeddingsPluginPool ==
    {Plugin("myplugin1", "fake"), Plugin("first", "named"),
     Plugin("second", "named"), Plugin("skip", "none")}

ClcPluginPool ==
    {Plugin("clc", "fake"), Plugin("data-a", "named"),
     Plugin("data-b", "named"), Plugin("skip", "none"),
     Plugin("blank", "empty")}

SeqsUpTo(pool, n) == UNION {[1..k -> pool] : k \in 0..n}

DocColl(resolver, manager) ==
    [target_resolver |-> resolver, plugin_manager |-> manager]

InlineFormattings == {InlineFormatting(name) : name \in InlineFormattingNames}

IdMetadata == << <<"id", StrDataType("doc-1")>> >>

InlineInfos ==
    {None}
    \cup {InlineNodeInfo(formatting, target, <<>>) :
            formatting \in InlineFormattings \cup {None},
            target \in Targets \cup {None}}

LeafInlines ==
    {RichtextInlineNode(<<Str("foo")>>, info) : info \in InlineInfos}

InnerInlines ==
    {RichtextInlineNode(<<Str("bar")>>, None),
     RichtextInlineNode(
        <<Str("bar")>>, InlineNodeInfo(InlineFormatting("EMPHASIS"), None, <<>>)),
     RichtextInlineNode(
        <<Str("bar")>>, InlineNodeInfo(None, ReferenceDataType("ref"), <<>>)),
     RichtextInlineNode(
        <<Str("bar")>>, InlineNodeInfo(None, VariableDataType("var"), <<>>))}

NestedInlines ==
    {RichtextInlineNode(<<Str("foo"), inner>>, info) :
        inner \in InnerInlines, info \in InlineInfos}

InlineSubjects == LeafInlines \cup NestedInlines

Title == RichtextInlineNode(<<Str("Some titles")>>, None)

PlainParagraph == Paragraph(<<RichtextInlineNode(<<Str("foo")>>, None)>>)

StrongParagraph ==
    Paragraph(<<RichtextInlineNode(
        <<Str("foo")>>, InlineNodeInfo(InlineFormatting("STRONG"), None, <<>>))>>)

ListParagraph ==
    Paragraph(<<
        List_("ORDERED", <<ListItem(IntVal(3), <<PlainParagraph>>),
                           ListItem(IntVal(4), <<PlainParagraph>>)>>),
        Annotation("note"),
        RichtextInlineNode(<<Str("bar")>>, None)>>)

CodeEmbedding(depth) ==
    EmbeddingBlockNode(
        depth, None, Str("print(1)"),
        BlockNodeInfo(StrDataType("code/python"), <<>>))

\* the children a richtext block at some depth may hold: paragraphs, an
\* embedding and, up to MaxDepth, richtext blocks one level deeper
BlockChildren(depth) ==
    {PlainParagraph, StrongParagraph, ListParagraph, CodeEmbedding(depth + 1)}
    \cup (IF depth >= MaxDepth THEN {}
          ELSE {RichtextBlockNode(depth + 1, title, <<child>>, None) :
                    title \in {None, Title},
                    child \in {PlainParagraph, CodeEmbedding(depth + 2)}})

BlockSubjects ==
    UNION {
        {RichtextBlockNode(depth, None, <<a, b>>, info) :
            a \in BlockChildren(depth), b \in BlockChildren(depth),
            info \in {None, BlockNodeInfo(None, IdMetadata)}}
        \cup {RichtextBlockNode(depth, Title, content, None) :
                content \in {<<>>, <<PlainParagraph>>}}
        : depth \in 0..MaxDepth}

EmbeddingSubjects ==
    {EmbeddingBlockNode(
        1, None, content, BlockNodeInfo(StrDataType(embed), metadata)) :
        content \in {None, Str("print(1)")},
        embed \in {"code", "code/python", "image"},
        metadata \in {<<>>, IdMetadata}}

\* a title whose link needs the resolver's rule for variables
VariableTitle ==
    RichtextInlineNode(
        <<Str("Some titles")>>,
        InlineNodeInfo(None, VariableDataType("var"), <<>>))

\* embeddings with a title, with and without an embed type
TitledEmbeddingSubjects ==
    {EmbeddingBlockNode(1, title, content, info) :
        title \in {Title, VariableTitle},
        content \in {None, Str("print(1)")},
        info \in {None, BlockNodeInfo(StrDataType("image"), <<>>)}}

\* a title that holds a paragraph
InvalidTitle == RichtextInlineNode(<<Str("Some"), PlainParagraph>>, None)

\* trees with a child that its position does not allow, at the top and
\* further down
InvalidSubjects ==
    {Paragraph(<<Str("foo")>>),
     Paragraph(<<RichtextInlineNode(<<Str("foo")>>, None), PlainParagraph>>),
     Paragraph(<<ListItem(None, <<PlainParagraph>>)>>),
     RichtextInlineNode(<<Str("foo"), Annotation("note")>>, None),
     RichtextInlineNode(
        <<PlainParagraph, Str("foo")>>,
        InlineNodeInfo(None, VariableDataType("var"), <<>>)),
     RichtextInlineNode(
        <<RichtextInlineNode(
            <<Str("bar")>>, InlineNodeInfo(None, VariableDataType("var"), <<>>)),
          PlainParagraph>>,
        None),
     RichtextBlockNode(0, None, <<PlainParagraph, Annotation("note")>>, None),
     RichtextBlockNode(
        1, Title, <<RichtextInlineNode(<<Str("foo")>>, None)>>, None),
     RichtextBlockNode(
        0, None,
        <<List_("UNORDERED", <<ListItem(None, <<PlainParagraph>>)>>)>>, None),
     RichtextBlockNode(1, InvalidTitle, <<PlainParagraph>>, None),
     EmbeddingBlockNode(1, InvalidTitle, Str("print(1)"), None),
     RichtextBlockNode(
        0, None,
        <<PlainParagraph,
          RichtextBlockNode(
            1, None,
            <<Paragraph(<<RichtextInlineNode(
                <<Str("foo"), Annotation("note")>>, None)>>)>>,
            None)>>,
        None),
     List_("ORDERED",
        <<ListItem(IntVal(3), <<PlainParagraph>>),
          ListItem(None, <<Paragraph(<<Str("foo")>>)>>)>>)}

StructuralSubjects ==
    {RichtextInlineNode(
        <<Str("foo")>>,
        InlineNodeInfo(InlineFormatting("STRONG"), None, IdMetadata)),
     RichtextInlineNode(
        <<Str("foo")>>,
        InlineNodeInfo(
            InlineFormatting("PRE"), StrDataType("https://www.test.example"),
            IdMetadata)),
     RichtextInlineNode(<<Str("foo")>>, None),
     PlainParagraph,
     ListParagraph,
     List_("UNORDERED", <<ListItem(None, <<PlainParagraph>>)>>),
     ListItem(IntVal(3), <<PlainParagraph>>),
     Annotation("note"),
     RichtextBlockNode(
        1, Title, <<PlainParagraph>>, BlockNodeInfo(None, IdMetadata)),
     RichtextBlockNode(0, None, <<PlainParagraph, StrongParagraph>>, None)}

ItemIndexes == {None, IntVal(0), IntVal(3)}

\* lists whose items have an explicit index at some positions only
ListSubjects ==
    {List_(type_, [i \in 1..Len(indexes) |->
                        ListItem(indexes[i], <<PlainParagraph>>)]) :
        type_ \in {"ORDERED", "UNORDERED"},
        indexes \in SeqsUpTo(ItemIndexes, MaxItems)}

\* a BlockNodeInfo with its magic fields
BlockNodeInfoMagic(id, embed, is_doc_metadata, target, fallback, metadata) ==
    [type |-> "BlockNodeInfo", id |-> id, embed |-> embed,
     is_doc_metadata |-> is_doc_metadata, target |-> target,
     fallback |-> fallback, metadata |-> metadata]

\* orders in which BlockMetadataMagic may define its members
MagicOrders ==
    {<<"id", "embed", "is_doc_metadata", "target", "fallback">>,
     <<"target", "is_doc_metadata", "id", "fallback", "embed">>,
     <<"embed", "fallback", "id", "is_doc_metadata", "target">>}

MetadataMappings ==
    {<<>>,
     << <<"alpha", StrDataType("a<b")>>, <<"beta", NullDataType>> >>,
     << <<"beta", NullDataType>>, <<"alpha", StrDataType("a<b")>> >>,
     << <<"gamma", StrDataType("it's")>>, <<"alpha", StrDataType("x")>>,
        <<"beta", StrDataType("y")>> >>}

MetaInfos ==
    {BlockNodeInfoMagic(
        id, embed, is_doc_metadata, target, fallback, metadata) :
        id \in {None, StrDataType("a<b")},
        embed \in {None, StrDataType("code")},
        is_doc_metadata \in {None, [type |-> "BoolDataType", value |-> TRUE]},
        target \in {None, StrDataType("https://www.test.example"),
                    MentionDataType("someone")},
        fallback \in {None, [name |-> "VISIBLE_PREFORMATTED"]},
        metadata \in MetadataMappings}

MetaInputs ==
    {[subject |-> info, magic |-> magic] :
        info \in MetaInfos, magic \in MagicOrders}

Traversals ==
    {GetattrTraversal("RED"), GetitemTraversal("0"), CallTraversal("()", "{}")}

LiteralValues ==
    {Crossref(module_name, toplevel_name, traversals) :
        module_name \in {None, Str("mod")},
        toplevel_name \in {None, Str("Color")},
        traversals \in SeqsUpTo(Traversals, MaxTraversals)}
    \cup {IntVal(1), PyBool(TRUE), Str("x"), PyBytes(<<120>>)}

LitInputs == {[value |-> value] : value \in LiteralValues}

FormattingBodies ==
    SeqsUpTo(
        {PlaintextTemplate("foo"), PlaintextTemplate("bar"),
         HtmlGenericElement("em", <<>>, <<PlaintextTemplate("baz")>>)},
        MaxBody)

HeadingDepths == (0 - NegativeDepths) .. MaxHeadingDepth

HeadInputs ==
    {[depth |-> depth, body |-> body] :
        depth \in HeadingDepths, body \in FormattingBodies}

FmtInputs ==
    {[spectype |-> spectype, body |-> body] :
        spectype \in InlineFormattings, body \in FormattingBodies}

\* what one transformation is given: the node and the collection's
\* collaborators
XfInput(subject, resolver, manager) ==
    [subject |-> subject, doc_coll |-> DocColl(resolver, manager)]

XfInputs ==
    {XfInput(subject, resolver, NoPlugins) :
        subject \in InlineSubjects, resolver \in Resolvers}
    \cup {XfInput(subject, ResolverDistinct, manager) :
            subject \in BlockSubjects, manager \in {NoPlugins, TestPlugins}}
    \cup {XfInput(subject, ResolverDistinct,
                  PluginManager(embeddings_plugins, clc_plugins)) :
            subject \in EmbeddingSubjects,
            embeddings_plugins \in SeqsUpTo(EmbeddingsPluginPool, MaxPlugins),
            clc_plugins \in {<<>>, <<Plugin("clc", "fake")>>}}
    \cup {XfInput(subject, ResolverDistinct, NoPlugins) :
            subject \in ListSubjects}
    \cup {XfInput(subject, resolver, manager) :
            subject \in InvalidSubjects,
            resolver \in {ResolverDistinct, ResolverIncomplete},
            manager \in {NoPlugins, TestPlugins}}
    \cup {XfInput(subject, resolver, manager) :
            subject \in TitledEmbeddingSubjects,
            resolver \in {ResolverDistinct, ResolverIncomplete},
            manager \in {NoPlugins, TestPlugins}}
    \cup {XfInput(subject, ResolverDistinct, PluginManager(<<>>, clc_plugins)) :
            subject \in StructuralSubjects,
            clc_plugins \in SeqsUpTo(ClcPluginPool, MaxPlugins)}

PlainDocument ==
    ClcDocument(RichtextBlockNode(0, None, <<PlainParagraph>>, None), None)

\* a document whose link needs the resolver's rule for variables
LinkDocument ==
    ClcDocument(
        RichtextBlockNode(
            0, None,
            <<Paragraph(<<RichtextInlineNode(
                <<Str("link")>>,
                InlineNodeInfo(
                    InlineFormatting("EMPHASIS"), VariableDataType("var"),
                    <<>>))>>)>>,
            None),
        BlockNodeInfo(None, IdMetadata))

\* a document the parser could not have produced: an annotation as the
\* child of a block
InvalidDocument ==
    ClcDocument(RichtextBlockNode(0, None, <<Annotation("note")>>, None), None)

ClcSources == {PlainDocument, LinkDocument, InvalidDocument}

PlainSummary == SummaryTreeNode(ModuleSummary("alpha", None, None, {}))

\* a docstring in a markup language the templatifier does not support
RstSummary ==
    SummaryTreeNode(
        ModuleSummary(
            "beta", DocText(PyStr(<<97>>), MarkupLang("RST")), {"beta", "alpha"},
            {}))

DocnoteSources == {PlainSummary, RstSummary}

ClcTexts ==
    {PyStr(<<>>), PyStr(<<97, 233>>), PyBytes(<<97, 195, 169>>),
     PyBytes(<<255>>)}

(***************************************************************************)
(* The collection, used by one caller at a time.                           *)
(***************************************************************************)
Call(name, args) == [name |-> name, args |-> args]

doc_coll == DocColl(target_resolver, plugin_manager)

FrameThreads == UNCHANGED <<pc, lock, pending, input>>

FrameCollaborators == UNCHANGED <<target_resolver, plugin_manager>>

AddEffects(docnote_src, clc_src) ==
    IF clc_src # None /\ docnote_src = None
    THEN TransformEffects(clc_src, {"Document"}, doc_coll).calls
    ELSE <<>>

Init ==
    /\ _documents = <<>>
    /\ target_resolver \in {ResolverHash, ResolverIncomplete}
    /\ plugin_manager = TestPlugins
    /\ op = Call("__init__", <<>>)
    /\ ret = None
    /\ exc = "none"
    /\ resolver_calls = <<>>
    /\ plugin_calls = <<>>
    /\ pc = [t \in Threads |-> "idle"]
    /\ lock = 0
    /\ pending = [t \in Threads |-> None]
    /\ completed = <<>>
    /\ input = None

\* what a call of add() leaves behind
AddReturns(id_, docnote_src, clc_src, outcome, effects) ==
    /\ op' = Call("add", <<id_, docnote_src, clc_src>>)
    /\ _documents' = outcome.documents
    /\ exc' = outcome.exc
    /\ ret' = None
    /\ resolver_calls' = ResolverCallsOf(effects)
    /\ plugin_calls' = PluginCallsOf(effects)
    /\ completed' =
            IF outcome.exc = "none"
            THEN Append(completed, dict_getitem(outcome.documents, id_))
            ELSE completed

Add ==
    \E id_ \in Ids, docnote_src \in DocnoteSources \cup {None},
       clc_src \in ClcSources \cup {None} :
        /\ AddReturns(
                id_, docnote_src, clc_src,
                add(_documents, id_, docnote_src, clc_src, doc_coll),
                IF add_is_duplicate(_documents, id_) THEN <<>>
                ELSE AddEffects(docnote_src, clc_src))
        /\ FrameThreads
        /\ FrameCollaborators

\* a call that reads the collection: it returns value or raises exception
Read(call, value, exception) ==
    /\ op' = call
    /\ ret' = value
    /\ exc' = exception
    /\ resolver_calls' = <<>>
    /\ plugin_calls' = <<>>
    /\ UNCHANGED <<_documents, completed>>
    /\ FrameThreads
    /\ FrameCollaborators

Contains ==
    \E id_ \in Ids :
        Read(Call("__contains__", <<id_>>),
             PyBool(dict_contains(_documents, id_)), "none")

GetItem ==
    \E id_ \in Ids :
        IF dict_contains(_documents, id_)
        THEN Read(Call("__getitem__", <<id_>>),
                  dict_getitem(_documents, id_), "none")
        ELSE Read(Call("__getitem__", <<id_>>), None, "KeyError")

Get ==
    \E key \in Ids :
        Read(Call("get", <<key>>),
             IF dict_contains(_documents, key)
             THEN dict_getitem(_documents, key) ELSE None,
             "none")

Iter == Read(Call("__iter__", <<>>), Return(dict_keys(_documents)), "none")

Length == Read(Call("__len__", <<>>), IntVal(Len(_documents)), "none")

Documents ==
    Read(Call("documents", <<>>), Return(dict_keys(_documents)), "none")

Preprocess ==
    \E clc_text \in ClcTexts :
        LET document == preprocess(clc_text)
        IN  IF IsRaised(document)
            THEN Read(Call("preprocess", <<clc_text>>), None, document.exc)
            ELSE Read(Call("preprocess", <<clc_text>>), document, "none")

Next ==
    \/ Add
    \/ Contains
    \/ GetItem
    \/ Get
    \/ Iter
    \/ Length
    \/ Documents
    \/ Preprocess

Spec == Init /\ [][Next]_vars


(***************************************************************************)
(* Properties of the collection (Spec).                                    *)
(***************************************************************************)
AddArgsGiven(call) ==
    [id_ |-> call.args[1], docnote_src |-> call.args[2],
     clc_src |-> call.args[3]]

ExactlyOneSource(args) ==
    \/ args.docnote_src # None /\ args.clc_src = None
    \/ args.docnote_src = None /\ args.clc_src # None

\* C1: add() on an id the collection already holds raises the duplicate-id
\* error (ValueError), whatever the sources, and leaves the stored entry
\* (id, source, render tree) as it was.
C1_DuplicateIdRejected ==
    [][(op'.name = "add" /\ dict_contains(_documents, op'.args[1]))
        => /\ exc' = "ValueError"
           /\ _documents' = _documents]_vars

\* a second add of a stored id, with another source, has just been rejected
C1_Witness ==
    /\ op.name = "add"
    /\ exc = "ValueError"
    /\ dict_contains(_documents, op.args[1])
    /\ op.args[3] # None
    /\ dict_getitem(_documents, op.args[1]).src # op.args[3]

\* C2: for an id not yet stored, add() with both sources or with neither
\* raises the caller error (TypeError) and stores nothing; add() succeeds
\* only with exactly one source.
C2_SourceArity ==
    [][(op'.name = "add" /\ ~dict_contains(_documents, op'.args[1]))
        => /\ ~ExactlyOneSource(AddArgsGiven(op'))
                => (exc' = "TypeError" /\ _documents' = _documents)
           /\ exc' = "none" => ExactlyOneSource(AddArgsGiven(op'))]_vars

\* add() was just called with both sources for a fresh id, beside a stored one
C2_Witness ==
    /\ op.name = "add"
    /\ exc = "TypeError"
    /\ op.args[2] # None
    /\ op.args[3] # None
    /\ ~dict_contains(_documents, op.args[1])
    /\ Len(_documents) >= 1

\* C3: the collection is write-once and append-only: no call removes an id
\* that was inserted, and the entry stored under it is the same value in
\* every later state.
C3_WriteOnce ==
    [][\A i \in 1..Len(_documents) :
            /\ i <= Len(_documents')
            /\ _documents'[i] = _documents[i]]_vars

\* two entries are stored, one after the other, and a later call has run
C3_Witness ==
    /\ Len(_documents) >= 2
    /\ Len(completed) >= 2
    /\ op.name \in {"get", "__contains__", "__iter__", "__len__",
                    "preprocess"}

(***************************************************************************)
(* The collection shared by several threads whose callers serialize add()  *)
(* with a mutex: add() runs in steps, between acquiring and releasing it.  *)
(***************************************************************************)
ConcSources == {<<None, PlainDocument>>, <<PlainSummary, None>>}

AddArgs(id_, docnote_src, clc_src) ==
    [id_ |-> id_, docnote_src |-> docnote_src, clc_src |-> clc_src,
     document |-> None]

FrameCalls == UNCHANGED <<ret, resolver_calls, plugin_calls, input>>

\* add() returns or raises: the caller releases the mutex
AddLeaves(t, exception) ==
    /\ op' = Call("add", <<pending[t].id_, pending[t].docnote_src,
                           pending[t].clc_src>>)
    /\ exc' = exception
    /\ pc' = [pc EXCEPT ![t] = "idle"]
    /\ pending' = [pending EXCEPT ![t] = None]
    /\ lock' = 0

\* the caller takes the mutex and calls add()
AddCall(t) ==
    /\ pc[t] = "idle"
    /\ lock = 0
    /\ lock' = t
    /\ \E id_ \in Ids, sources \in ConcSources :
            pending' = [pending EXCEPT
                            ![t] = AddArgs(id_, sources[1], sources[2])]
    /\ pc' = [pc EXCEPT ![t] = "check"]
    /\ UNCHANGED <<_documents, completed, op, exc>>
    /\ FrameCalls
    /\ FrameCollaborators

\* line 107
AddCheckDuplicate(t) ==
    /\ pc[t] = "check"
    /\ IF add_is_duplicate(_documents, pending[t].id_)
       THEN AddLeaves(t, "ValueError")
       ELSE /\ pc' = [pc EXCEPT ![t] = "construct"]
            /\ UNCHANGED <<op, exc, pending, lock>>
    /\ UNCHANGED <<_documents, completed>>
    /\ FrameCalls
    /\ FrameCollaborators

AddConstructed(t, document) ==
    IF document.cls = "RAISED"
    THEN AddLeaves(t, document.exc)
    ELSE /\ pending' = [pending EXCEPT ![t].document = document]
         /\ pc' = [pc EXCEPT ![t] = "store"]
         /\ UNCHANGED <<op, exc, lock>>

\* lines 110-143, up to the assignment
AddConstruct(t) ==
    /\ pc[t] = "construct"
    /\ AddConstructed(
            t,
            add_construct(
                pending[t].id_, pending[t].docnote_src, pending[t].clc_src,
                doc_coll))
    /\ UNCHANGED <<_documents, completed>>
    /\ FrameCalls
    /\ FrameCollaborators

\* the assignment self._documents[id_] = ..., and the return
AddStore(t) ==
    /\ pc[t] = "store"
    /\ _documents' =
            dict_setitem(_documents, pending[t].id_, pending[t].document)
    /\ completed' = Append(completed, pending[t].document)
    /\ AddLeaves(t, "none")
    /\ FrameCalls
    /\ FrameCollaborators

InitConc ==
    /\ Init
    /\ target_resolver = ResolverHash

NextConc ==
    \E t \in Threads :
        \/ AddCall(t)
        \/ AddCheckDuplicate(t)
        \/ AddConstruct(t)
        \/ AddStore(t)

SpecConc == InitConc /\ [][NextConc]_vars


\* C4: with add() calls serialized by the callers' mutex, for each id at most
\* one add succeeds, every other add of that id fails, and the entry stored
\* is the one the successful add wrote.
C4_SerializedAdds ==
    /\ \A i, j \in 1..Len(completed) :
            completed[i].id_ = completed[j].id_ => i = j
    /\ Len(_documents) = Len(completed)
    /\ \A i \in 1..Len(completed) :
            /\ dict_contains(_documents, completed[i].id_)
            /\ dict_getitem(_documents, completed[i].id_) = completed[i]
    /\ \A t \in Threads : pc[t] # "idle" => lock = t

\* one thread's add of a stored id has failed while another thread is
\* inside its own add
C4_Witness ==
    /\ op.name = "add"
    /\ exc = "ValueError"
    /\ Len(completed) >= 1
    /\ \E t \in Threads : pc[t] = "construct"

(***************************************************************************)
(* One transformation of one node.                                         *)
(***************************************************************************)
TransformReturns(subject, rendered, effects) ==
    /\ op' = Call("transform", <<subject>>)
    /\ ret' = IF AnyRaised(rendered) THEN None ELSE Return(rendered)
    /\ exc' = IF AnyRaised(rendered) THEN FirstRaised(rendered).exc ELSE "none"
    /\ completed' = Append(completed, [ret |-> ret', exc |-> exc'])
    /\ resolver_calls' = ResolverCallsOf(effects)
    /\ plugin_calls' = PluginCallsOf(effects)

InitXf ==
    /\ input \in XfInputs
    /\ target_resolver = input.doc_coll.target_resolver
    /\ plugin_manager = input.doc_coll.plugin_manager
    /\ _documents = <<>>
    /\ op = Call("__init__", <<>>)
    /\ ret = None
    /\ exc = "none"
    /\ resolver_calls = <<>>
    /\ plugin_calls = <<>>
    /\ pc = [t \in Threads |-> "idle"]
    /\ lock = 0
    /\ pending = [t \in Threads |-> None]
    /\ completed = <<>>

\* No from_ast_node assigns to a field of the node it is given (the one
\* assignment, in from_document, is to the template): the node is the same
\* after the call.
Transform ==
    /\ Len(completed) < MaxTransforms
    /\ TransformReturns(
            input.subject,
            transform(input.subject, doc_coll),
            TransformEffects(input.subject, AllNodeTypes, doc_coll).calls)
    /\ UNCHANGED <<_documents, pc, lock, pending, input>>
    /\ FrameCollaborators

\* listitem_factory applied to the index of each item of a list
ListitemFactory ==
    /\ input.subject.type = "List_"
    /\ op.name # "listitem_factory"
    /\ op' = Call("listitem_factory", <<input.subject>>)
    /\ ret' = Return([i \in 1..Len(input.subject.content) |->
                        listitem_factory(
                            input.subject.content[i].index, <<>>)])
    /\ exc' = "none"
    /\ resolver_calls' = <<>>
    /\ plugin_calls' = <<>>
    /\ UNCHANGED <<_documents, completed, pc, lock, pending, input>>
    /\ FrameCollaborators

NextXf ==
    \/ Transform
    \/ ListitemFactory

SpecXf == InitXf /\ [][NextXf]_vars


(***************************************************************************)
(* Properties of the transformation (SpecXf).                              *)
(***************************************************************************)
\* the transformation of a node of the given type has returned
Transformed(type) ==
    /\ op.name = "transform"
    /\ exc = "none"
    /\ input.subject.type = type

\* what the recursive calls return for the children of an inline node
RenderedInlineChildren(node, dc) ==
    [i \in 1..Len(node.content) |->
        IF node.content[i].type = "str"
        THEN PlaintextTemplate(node.content[i].value)
        ELSE templatify(node.content[i], dc)]

\* what the recursive calls return for the children of a block node
RenderedBlockChildren(node, dc) ==
    [i \in 1..Len(node.content) |-> templatify(node.content[i], dc)]

IsLinkAround(element, children) ==
    /\ element.tpl = "HtmlGenericElement"
    /\ element.tag = "a"
    /\ element.body = children

IsFormattingAround(element, formatting, children) ==
    /\ element = formatting_factory(formatting, children)
    /\ element.tag # "a"
    /\ element.body = children

WrapOrder(info, body, children) ==
    IF info = None THEN body = children
    ELSE IF info.formatting # None /\ info.target # None
    THEN /\ Len(body) = 1
         /\ Len(body[1].body) = 1
         /\ IsLinkAround(body[1], <<body[1].body[1]>>)
         /\ IsFormattingAround(body[1].body[1], info.formatting, children)
    ELSE IF info.formatting # None
    THEN /\ Len(body) = 1
         /\ IsFormattingAround(body[1], info.formatting, children)
    ELSE IF info.target # None
    THEN /\ Len(body) = 1
         /\ IsLinkAround(body[1], children)
    ELSE body = children

\* C5: an inline node with formatting F and a link target has as its body
\* exactly one link element whose only child is the formatting element for F
\* around the transformed children (never the formatting around the link);
\* formatting alone gives the one formatting element, a target alone the one
\* link around the children, neither the children unwrapped.
C5_FormattingInsideLink ==
    Transformed("RichtextInlineNode")
        => WrapOrder(
            input.subject.info, ret.value[1].body,
            RenderedInlineChildren(input.subject, input.doc_coll))

\* a strong, linked inline node with a nested inline child was transformed
C5_Witness ==
    /\ Transformed("RichtextInlineNode")
    /\ input.subject.info # None
    /\ input.subject.info.formatting = InlineFormatting("STRONG")
    /\ input.subject.info.target = StrDataType("https://www.test.example")
    /\ Len(input.subject.content) = 2
    /\ ret.value[1].body[1].tag = "a"
    /\ ret.value[1].body[1].body[1].tag = "strong"

\* the resolver calls made while the children of the node were transformed
ResolverCallsOfChildren(node, dc) ==
    ResolverCallsOf(
        TransformEffectsOfAll(
            node.content, {"str", "RichtextInlineNode"}, dc).calls)

LinkHref(body) == body[1].attrs

ResolvesOnce(target, dc, calls, calls_of_children, href) ==
    IF target.type = "StrDataType"
    THEN /\ calls = calls_of_children
         /\ href = <<HtmlAttr("href", target.value)>>
    ELSE /\ calls = calls_of_children \o <<target>>
         /\ href = <<HtmlAttr("href", dc.target_resolver[target].value)>>

C7_Original ==
    (Transformed("RichtextBlockNode") /\ Len(input.subject.content) = 2)
        => IF input.subject.depth = 0
           THEN ret.value =
                    RenderedBlockChildren(input.subject, input.doc_coll)
           ELSE /\ Len(ret.value) = 1
                /\ ret.value[1].body =
                        RenderedBlockChildren(input.subject, input.doc_coll)

\* C7: a richtext block with children [A, B] gives, at every depth and at
\* depth 0 too, exactly one container element whose children are
\* [render(A), render(B)]; depth 0 only marks that container as the root.
C7_OneContainerAtEveryDepth ==
    Transformed("RichtextBlockNode")
        => /\ Len(ret.value) = 1
           /\ ret.value[1].tpl = "ClcRichtextBlocknodeTemplate"
           /\ ret.value[1].body =
                    RenderedBlockChildren(input.subject, input.doc_coll)
           /\ ret.value[1].role_if_root = (input.subject.depth <= 0)

\* a block at depth 0 with two children was transformed
C7_Witness ==
    /\ Transformed("RichtextBlockNode")
    /\ input.subject.depth = 0
    /\ Len(input.subject.content) = 2
    /\ input.subject.content[1] # input.subject.content[2]
    /\ ret.value[1].role_if_root


\* the plugins called on the node itself, in call order
PluginsCalledOn(calls, kind, node) ==
    LET selected == SelectKinds(calls, {kind})
        on_node ==
            SelectSeq(selected, LAMBDA event : event.node = node)
    IN  [i \in 1..Len(on_node) |-> on_node[i].plugin]

\* the position of the first plugin returning an injection, 0 without one
FirstInjecting(plugins, node, embedding_type) ==
    IF \E i \in 1..Len(plugins) :
            CallEmbeddingsPlugin(plugins[i], node, embedding_type) # None
    THEN CHOOSE i \in 1..Len(plugins) :
            /\ CallEmbeddingsPlugin(plugins[i], node, embedding_type) # None
            /\ \A j \in 1..(i - 1) :
                CallEmbeddingsPlugin(plugins[j], node, embedding_type) = None
    ELSE 0

IsPrefix(prefix, whole) ==
    /\ Len(prefix) <= Len(whole)
    /\ SubSeq(whole, 1, Len(prefix)) = prefix

IsSuffix(suffix, whole) ==
    /\ Len(suffix) <= Len(whole)
    /\ SubSeq(whole, Len(whole) - Len(suffix) + 1, Len(whole)) = suffix

ShortCircuits(plugins, first, node, embedding_type, called, template) ==
    IF first = 0
    THEN /\ called = plugins
         /\ template.plugin_widgets = <<>>
    ELSE /\ called = SubSeq(plugins, 1, first)
         /\ template.plugin_widgets =
                InjectionWidgets(
                    CallEmbeddingsPlugin(plugins[first], node, embedding_type))
         /\ IsPrefix(
                InjectionAttrs(
                    CallEmbeddingsPlugin(plugins[first], node, embedding_type)),
                template.plugin_attrs)

CumulativeMerge(plugins, node, called, template) ==
    /\ called = plugins
    /\ IsSuffix(
            Concat([i \in 1..Len(plugins) |->
                        InjectionAttrs(CallClcPlugin(plugins[i], node))]),
            template.plugin_attrs)
    /\ IsSuffix(
            Concat([i \in 1..Len(plugins) |->
                        InjectionWidgets(CallClcPlugin(plugins[i], node))]),
            template.plugin_widgets)
    /\ node.type # "EmbeddingBlockNode"
        => Len(template.plugin_attrs) =
                Len(Concat([i \in 1..Len(plugins) |->
                        InjectionAttrs(CallClcPlugin(plugins[i], node))]))

WithoutInjections(template) ==
    [template EXCEPT !.plugin_attrs = <<>>, !.plugin_widgets = <<>>]

EmbeddingInjected(node, dc) ==
    /\ node.type = "EmbeddingBlockNode"
    /\ EmbeddingsPluginInjection(node, dc) # None

AugmentsOrOwns(owned, final, structural) ==
    IF owned
    THEN /\ final.title = structural.title
         /\ final.metadata = structural.metadata
         /\ final.nodeinfo = structural.nodeinfo
         /\ final.body = <<>>
    ELSE WithoutInjections(final) = structural

IndexAttribute(index) ==
    IF index = None THEN ""
    ELSE CASE index.value = 0 -> " value=\"0\""
           [] index.value = 3 -> " value=\"3\""

IndexAttrs(index) ==
    IF index = None THEN <<>>
    ELSE CASE index.value = 0 -> <<HtmlAttr("value", "0")>>
           [] index.value = 3 -> <<HtmlAttr("value", "3")>>

\* C12: a rendered list item carries the index (value) attribute exactly
\* when the source item has an explicit index, with that index as its value;
\* an item without index gets no attribute, whatever its position.
C12_ItemIndex ==
    /\ Transformed("List_")
        => /\ Len(ret.value[1].items) = Len(input.subject.content)
           /\ \A i \in 1..Len(input.subject.content) :
                _transform_listitem_index(ret.value[1].items[i].index)
                    = IndexAttribute(input.subject.content[i].index)
    /\ op.name = "listitem_factory"
        => \A i \in 1..Len(input.subject.content) :
                ret.value[i].attrs
                    = IndexAttrs(input.subject.content[i].index)

\* an ordered list was transformed whose second item alone has no index
\* and whose first item has the index 0
C12_Witness ==
    /\ Transformed("List_")
    /\ input.subject.type_ = "ORDERED"
    /\ Len(input.subject.content) = 3
    /\ input.subject.content[1].index = IntVal(0)
    /\ input.subject.content[2].index = None
    /\ input.subject.content[3].index = IntVal(3)
    /\ _transform_listitem_index(ret.value[1].items[2].index) = ""


(***************************************************************************)
(* The flattening of one node info: its magic fields and its metadata.     *)
(***************************************************************************)
InitMeta ==
    /\ input \in MetaInputs
    /\ target_resolver = ResolverHash
    /\ plugin_manager = NoPlugins
    /\ _documents = <<>>
    /\ op = Call("__init__", <<>>)
    /\ ret = None
    /\ exc = "none"
    /\ resolver_calls = <<>>
    /\ plugin_calls = <<>>
    /\ pc = [t \in Threads |-> "idle"]
    /\ lock = 0
    /\ pending = [t \in Threads |-> None]
    /\ completed = <<>>

FrameMeta ==
    UNCHANGED <<_documents, resolver_calls, plugin_calls, pc, lock, pending,
                completed, input, target_resolver, plugin_manager>>

\* ret.fields lists the attributes of the text in the order they are written
TransformSpecMetadatasBlock ==
    /\ op.name # "_transform_spec_metadatas_block"
    /\ op' = Call("_transform_spec_metadatas_block", <<input.subject>>)
    /\ IF spec_metadatas_block(input.subject, input.magic).raised
       THEN /\ ret' = None
            /\ exc' = "NotImplementedError"
       ELSE /\ ret' =
                [type |-> "str",
                 value |-> _transform_spec_metadatas_block(
                                input.subject, input.magic),
                 fields |-> sorted_fields(
                    spec_metadatas_block(input.subject, input.magic).items)]
            /\ exc' = "none"
    /\ FrameMeta

MetadataFromAstNode ==
    /\ op.name # "ClcMetadataTemplate.from_ast_node"
    /\ op' = Call("ClcMetadataTemplate.from_ast_node", <<input.subject>>)
    /\ ret' = Return(ClcMetadataTemplate_from_ast_node(input.subject))
    /\ exc' = "none"
    /\ FrameMeta

NextMeta ==
    \/ TransformSpecMetadatasBlock
    \/ MetadataFromAstNode

SpecMeta == InitMeta /\ [][NextMeta]_vars

KeysOf(entries) == [i \in 1..Len(entries) |-> entries[i].key]

\* the order of str on the keys of the model
KeyRank(key) ==
    CASE key = "alpha" -> 1
      [] key = "beta" -> 2
      [] key = "embed" -> 3
      [] key = "fallback" -> 4
      [] key = "gamma" -> 5
      [] key = "id" -> 6
      [] key = "is_doc_metadata" -> 7
      [] key = "target" -> 8

Lexicographic(keys) ==
    \A i, j \in 1..Len(keys) : i < j => KeyRank(keys[i]) < KeyRank(keys[j])

DisplayedFields(info, magic) ==
    {magic[i] : i \in {j \in 1..Len(magic) :
                        /\ magic[j] # "is_doc_metadata"
                        /\ info[magic[j]] # None}}

OnePerField(info, magic, keys) ==
    /\ Len(keys) = Cardinality(DisplayedFields(info, magic))
    /\ {keys[i] : i \in 1..Len(keys)} = DisplayedFields(info, magic)

InsertionOrder(metadata, keys) ==
    keys = [i \in 1..Len(metadata) |-> metadata[i][1]]

\* C13 as stated: every flattening emits one entry per key in lexicographic
\* order of key, whatever the insertion order, and none for the
\* is-document-metadata key.
C13_Original ==
    /\ (op.name = "_transform_spec_metadatas_block" /\ exc = "none")
        => /\ OnePerField(input.subject, input.magic, KeysOf(ret.fields))
           /\ Lexicographic(KeysOf(ret.fields))
    /\ op.name = "ClcMetadataTemplate.from_ast_node"
        => /\ Len(ret.value) = Len(input.subject.metadata)
           /\ Lexicographic(KeysOf(ret.value))

\* C13: the magic fields of a node info are written as attributes, one per
\* field that is set, in lexicographic order of field name whatever the
\* order the fields are defined in, and never the is-document-metadata
\* field; the entries of the metadata mapping are emitted one per key in
\* the insertion order of the mapping.
C13_MetadataFlattening ==
    /\ (op.name = "_transform_spec_metadatas_block" /\ exc = "none")
        => /\ OnePerField(input.subject, input.magic, KeysOf(ret.fields))
           /\ Lexicographic(KeysOf(ret.fields))
    /\ op.name = "ClcMetadataTemplate.from_ast_node"
        => /\ Len(ret.value) = Len(input.subject.metadata)
           /\ InsertionOrder(input.subject.metadata, KeysOf(ret.value))

\* a mapping that holds beta before alpha was flattened, beside magic fields
\* defined out of order
C13_Witness ==
    /\ op.name = "ClcMetadataTemplate.from_ast_node"
    /\ KeysOf(ret.value) = <<"beta", "alpha">>
    /\ input.magic[1] = "target"
    /\ input.subject.is_doc_metadata # None
    /\ input.subject.id # None
    /\ input.subject.embed # None


\* the render nodes directly below a render node
ChildNodes(element) ==
    (IF "title" \in DOMAIN element THEN element.title ELSE <<>>)
    \o (IF "body" \in DOMAIN element THEN element.body ELSE <<>>)
    \o (IF "items" \in DOMAIN element THEN element.items ELSE <<>>)
    \o (IF "plugin_widgets" \in DOMAIN element
        THEN element.plugin_widgets ELSE <<>>)

RECURSIVE Elements(_)
\* every render node of a list of render trees
Elements(nodes) ==
    IF nodes = <<>> THEN <<>>
    ELSE <<Head(nodes)>> \o Elements(ChildNodes(Head(nodes)))
            \o Elements(Tail(nodes))

AttrsOf(element) ==
    IF "attrs" \in DOMAIN element THEN element.attrs
    ELSE IF "plugin_attrs" \in DOMAIN element THEN element.plugin_attrs
    ELSE <<>>

DistinctKeys(attrs) ==
    \A i, j \in 1..Len(attrs) : i # j => attrs[i].key # attrs[j].key

AllDistinctKeys(elements) ==
    \A i \in 1..Len(elements) : DistinctKeys(AttrsOf(elements[i]))

\* the elements the transformer's own factories build
OwnElements(elements) ==
    SelectSeq(elements, LAMBDA element : "attrs" \in DOMAIN element)

\* the attribute key a structural plugin of the model injects, "" for none
InjectedKey(plugin) ==
    CASE plugin.behaviour = "fake" -> "id"
      [] plugin.behaviour = "named" -> plugin.plugin_name
      [] OTHER -> ""

\* no two registered structural plugins inject the same attribute key
PluginsInjectDistinctKeys(manager) ==
    \A i, j \in 1..Len(manager.clc_plugins) :
        (i # j /\ InjectedKey(manager.clc_plugins[i]) # "")
            => InjectedKey(manager.clc_plugins[i])
                # InjectedKey(manager.clc_plugins[j])

IsAnnotation(node) == node.type = "Annotation"

NonAnnotations(content) ==
    SelectSeq(content, LAMBDA nested : ~IsAnnotation(nested))

\* C15 as stated: an annotation transforms to no render node, and the body
\* of a paragraph has as many render nodes as the paragraph has children
\* that are not annotations.
C15_Original ==
    /\ Transformed("Annotation") => ret.value = <<>>
    /\ Transformed("Paragraph")
        => Len(ret.value[1].body) = Len(NonAnnotations(input.subject.content))

\* C15: an annotation transforms to exactly one render node, a comment that
\* holds the annotation's text; the body of a paragraph has exactly one
\* render node per child, in order, the one of an annotation being its
\* comment.
C15_AnnotationIsComment ==
    /\ Transformed("Annotation")
        => /\ Len(ret.value) = 1
           /\ ret.value[1].tpl = "ClcAnnotationTemplate"
           /\ ret.value[1].text = input.subject.content
    /\ Transformed("Paragraph")
        => /\ Len(ret.value[1].body) = Len(input.subject.content)
           /\ \A i \in 1..Len(input.subject.content) :
                IsAnnotation(input.subject.content[i])
                    <=> ret.value[1].body[i].tpl = "ClcAnnotationTemplate"
           /\ \A i \in 1..Len(input.subject.content) :
                IsAnnotation(input.subject.content[i])
                    => ret.value[1].body[i].text
                        = input.subject.content[i].content

\* a paragraph holding an annotation between other children was transformed
C15_Witness ==
    /\ Transformed("Paragraph")
    /\ \E i \in 1..Len(input.subject.content) :
            IsAnnotation(input.subject.content[i])
    /\ Len(NonAnnotations(input.subject.content)) = 2


\* the transformation of an embedding that no embeddings plugin injects
\* into has ended
FallbackTransformed ==
    /\ op.name = "transform"
    /\ input.subject.type = "EmbeddingBlockNode"
    /\ EmbeddingsPluginInjection(input.subject, input.doc_coll) = None

\* the exception the transformation of the node's title ends with
TitleException(node, dc) ==
    IF node.title = None THEN "none"
    ELSE IF IsRaised(templatify(node.title, dc))
    THEN templatify(node.title, dc).exc
    ELSE "none"

FallbackBody(node) ==
    IF node.content = None THEN <<>>
    ELSE <<PlaintextTemplate(node.content.value)>>

AllowedChildren(type) ==
    CASE type = "RichtextBlockNode" ->
            {"Paragraph", "EmbeddingBlockNode", "RichtextBlockNode"}
      [] type = "Paragraph" -> {"RichtextInlineNode", "List_", "Annotation"}
      [] type = "RichtextInlineNode" -> {"str", "RichtextInlineNode"}

\* the one rule of each variant, named by the template it builds
RuleOf(type) ==
    CASE type = "RichtextBlockNode" -> "ClcRichtextBlocknodeTemplate"
      [] type = "EmbeddingBlockNode" -> "ClcEmbeddingBlocknodeTemplate"
      [] type = "Paragraph" -> "ClcParagraphTemplate"
      [] type = "List_" -> "ClcListTemplate"
      [] type = "ListItem" -> "ClcListItemTemplate"
      [] type = "RichtextInlineNode" -> "ClcRichtextInlineNodeTemplate"
      [] type = "Annotation" -> "ClcAnnotationTemplate"
      [] type = "str" -> "PlaintextTemplate"

RECURSIVE HasDisallowedChild(_)
\* somewhere in the tree a richtext block, a paragraph or an inline node
\* holds a child of a variant it does not accept
HasDisallowedChild(node) ==
    \/ /\ node.type \in {"RichtextBlockNode", "Paragraph", "RichtextInlineNode"}
       /\ \E i \in 1..Len(node.content) :
            node.content[i].type \notin AllowedChildren(node.type)
    \/ /\ node.type \in {"RichtextBlockNode", "EmbeddingBlockNode"}
       /\ node.title # None
       /\ HasDisallowedChild(node.title)
    \/ /\ node.type \in {"RichtextBlockNode", "Paragraph", "RichtextInlineNode",
                         "List_", "ListItem"}
       /\ \E i \in 1..Len(node.content) :
            /\ node.content[i].type # "str"
            /\ HasDisallowedChild(node.content[i])

\* the children of the node were given to the rules of their variants
ChildrenByRule(node, rendered) ==
    /\ Len(rendered) = Len(node.content)
    /\ \A i \in 1..Len(node.content) :
            rendered[i].tpl = RuleOf(node.content[i].type)

\* C17: a transformation that returns used, for the node and for each of its
\* children, the one rule of that node's variant; a tree in which a richtext
\* block, a paragraph or an inline node holds a child of a variant not
\* allowed there makes the whole transformation end with an exception, a
\* TypeError unless a resolver failure came first, and return nothing; a
\* tree without such a child never ends with TypeError.
C17_OneRuleOrAbort ==
    op.name = "transform"
        => /\ exc = "none"
                => /\ Len(ret.value) = 1
                   /\ ret.value[1].tpl = RuleOf(input.subject.type)
           /\ (exc = "none" /\ input.subject.type = "Paragraph")
                => ChildrenByRule(input.subject, ret.value[1].body)
           /\ (exc = "none" /\ input.subject.type = "RichtextBlockNode")
                => ChildrenByRule(input.subject, ret.value[1].body)
           /\ HasDisallowedChild(input.subject)
                => /\ exc \in {"TypeError", "NotImplementedError"}
                   /\ ret = None
           /\ (/\ HasDisallowedChild(input.subject)
               /\ input.doc_coll.target_resolver = ResolverDistinct)
                => exc = "TypeError"
           /\ ~HasDisallowedChild(input.subject) => exc # "TypeError"

\* a block whose grandchild paragraph holds an inline node with an annotation
\* in it ended with TypeError and without a render tree
C17_Witness ==
    /\ op.name = "transform"
    /\ input.subject.type = "RichtextBlockNode"
    /\ Len(input.subject.content) = 2
    /\ input.subject.content[2].type = "RichtextBlockNode"
    /\ HasDisallowedChild(input.subject.content[2])
    /\ exc = "TypeError"
    /\ ret = None


(***************************************************************************)
(* The rendering of one literal value.                                     *)
(***************************************************************************)
InitLit ==
    /\ input \in LitInputs
    /\ target_resolver = ResolverHash
    /\ plugin_manager = NoPlugins
    /\ _documents = <<>>
    /\ op = Call("__init__", <<>>)
    /\ ret = None
    /\ exc = "none"
    /\ resolver_calls = <<>>
    /\ plugin_calls = <<>>
    /\ pc = [t \in Threads |-> "idle"]
    /\ lock = 0
    /\ pending = [t \in Threads |-> None]
    /\ completed = <<>>

LiteralReturns(name, rendered) ==
    /\ op' = Call(name, <<input.value>>)
    /\ ret' = IF IsRaised(rendered) THEN None ELSE Return(<<rendered>>)
    /\ exc' = IF IsRaised(rendered) THEN rendered.exc ELSE "none"
    /\ FrameMeta

LiteralValueFactory ==
    /\ op.name # "templates.literal_value_factory"
    /\ LiteralReturns(
        "templates.literal_value_factory", literal_value_factory(input.value))

FactoriesLiteralValueFactory ==
    /\ op.name # "factories.literal_value_factory"
    /\ LiteralReturns(
        "factories.literal_value_factory",
        factories_literal_value_factory(input.value))

NextLit ==
    \/ LiteralValueFactory
    \/ FactoriesLiteralValueFactory

SpecLit == InitLit /\ [][NextLit]_vars

\* a literal value factory has ended on a Crossref
CrossrefRendered ==
    /\ op.name \in {"templates.literal_value_factory",
                    "factories.literal_value_factory"}
    /\ input.value.type = "Crossref"

\* module name, top-level name and exactly one traversal, an attribute access
IsEnumMember(value) ==
    /\ value.module_name # None
    /\ value.toplevel_name # None
    /\ Len(value.traversals) = 1
    /\ value.traversals[1].type = "GetattrTraversal"

\* C18: a crossreffed literal value is rendered exactly when it has a module
\* name, a top-level name and one traversal that is an attribute access; any
\* other shape (no traversal, several, one of another kind, no module or
\* top-level name) ends with ValueError and returns no render node.
C18_CrossrefLiteral ==
    CrossrefRendered
        => /\ exc = "none" <=> IsEnumMember(input.value)
           /\ exc # "none" => (exc = "ValueError" /\ ret = None)
           /\ exc = "none"
                => /\ Len(ret.value) = 1
                   /\ ret.value[1].tpl \in
                        {"CrossrefSummaryTemplate",
                         "UnlinkableCrossrefSummaryTemplate"}
                   /\ ret.value[1].qualname = "mod:Color.RED"
                        \/ ret.value[1].qualname = "mod:Color"

\* mod:Color[0], one traversal that is no attribute access, was refused
C18_Witness ==
    /\ CrossrefRendered
    /\ input.value.module_name # None
    /\ input.value.toplevel_name # None
    /\ Len(input.value.traversals) = 1
    /\ input.value.traversals[1].type = "GetitemTraversal"
    /\ exc = "ValueError"
    /\ ret = None


(***************************************************************************)
(* The collection with plugins registered while it holds documents.       *)
(***************************************************************************)
\* the registry after one more structural plugin was registered
register_clc_plugin(manager, plugin) ==
    PluginManager(manager.embeddings_plugins, Append(manager.clc_plugins, plugin))

\* a registration that transforms the stored cleancopy documents again
documents_retransformed(documents, manager) ==
    [i \in 1..Len(documents) |->
        IF documents[i].cls = "ClcHtmlDocument"
        THEN add_clc_document(
                documents[i].id_, documents[i].src,
                write_document(
                    documents[i].src, DocColl(target_resolver, manager)))
        ELSE documents[i]]

\* what a registration leaves in self._documents: the only assignments to
\* it are those of add()
documents_after_registration(documents, manager) == documents

RegisterPlugin ==
    \E plugin \in {Plugin("data-a", "named"), Plugin("data-b", "named")} :
        /\ Len(plugin_manager.clc_plugins)
                < Len(TestPlugins.clc_plugins) + MaxRegistrations
        /\ plugin_manager' = register_clc_plugin(plugin_manager, plugin)
        /\ _documents' =
                documents_after_registration(_documents, plugin_manager')
        /\ op' = Call("register_plugin", <<plugin>>)
        /\ ret' = None
        /\ exc' = "none"
        /\ resolver_calls' = <<>>
        /\ plugin_calls' = <<>>
        /\ UNCHANGED <<completed, target_resolver>>
        /\ FrameThreads

NextReg ==
    \/ Add
    \/ Contains
    \/ GetItem
    \/ Get
    \/ Iter
    \/ Length
    \/ Documents
    \/ Preprocess
    \/ RegisterPlugin

SpecReg == Init /\ [][NextReg]_vars

\* the attributes the registered structural plugins inject into the root of
\* a cleancopy document
RootInjectedAttrs(clc_src, dc) ==
    Concat([i \in 1..Len(ClcPluginInjections(clc_src.root, dc)) |->
                InjectionAttrs(ClcPluginInjections(clc_src.root, dc)[i])])

AddedIds == [i \in 1..Len(completed) |-> completed[i].id_]

\* C20: iteration and the documents view return the ids in the order of the
\* successful adds that stored them: reads with no add in between return the
\* same sequence, and a successful add puts its id after all the ids
\* already present, which keep their order.
C20_StableOrder ==
    op.name \in {"__iter__", "documents"} => ret.value = AddedIds

\* id 2 was added before id 1 and the view returned them in that order
C20_Witness ==
    /\ op.name = "documents"
    /\ ret.value = <<2, 1>>


\* the ids for which some add has succeeded
AddedIdSet == {completed[i].id_ : i \in 1..Len(completed)}

\* the ids of the ids sequence
IdsExposed == {dict_keys(_documents)[i] : i \in 1..Len(_documents)}

\* C21: in every state and for every id, the id is contained iff get
\* returns an entry for it iff it is in the ids sequence iff an earlier add
\* of it succeeded, and the length is the number of successful adds; the
\* calls __contains__, get and __len__ return accordingly.
C21_ViewsAgree ==
    /\ \A id_ \in Ids :
            /\ dict_contains(_documents, id_) <=> id_ \in AddedIdSet
            /\ id_ \in IdsExposed <=> id_ \in AddedIdSet
    /\ Len(_documents) = Len(completed)
    /\ op.name = "__contains__" => ret = PyBool(op.args[1] \in AddedIdSet)
    /\ op.name = "get" => (ret # None <=> op.args[1] \in AddedIdSet)
    /\ (op.name = "get" /\ ret # None) => ret.id_ = op.args[1]
    /\ op.name = "__len__" => ret = IntVal(Len(completed))

\* with one id added and the other not, get returned None for the other
C21_Witness ==
    /\ op.name = "get"
    /\ ret = None
    /\ Len(completed) = 1
    /\ op.args[1] \notin AddedIdSet


\* the UTF-8 octets of the texts of the model, written out
Utf8Octets(codepoints) ==
    CASE codepoints = <<>> -> <<>>
      [] codepoints = <<97, 233>> -> <<97, 195, 169>>

\* the call ended as the parse of the octets does
EndsAsParseOf(octets, value, exception) ==
    IF IsRaised(parse_and_convert(octets))
    THEN /\ value = None
         /\ exception = parse_and_convert(octets).exc
    ELSE /\ value = parse_and_convert(octets)
         /\ exception = "none"

\* C22: preprocess leaves the collection's ids and entries as they were,
\* whether it returns a tree or ends with a parse error, and a text given
\* as a str yields what the same text given as UTF-8 bytes yields.
C22_PreprocessIsPure ==
    [][op'.name = "preprocess"
        => /\ _documents' = _documents
           /\ dict_keys(_documents') = dict_keys(_documents)
           /\ op'.args[1].type = "str"
                => EndsAsParseOf(Utf8Octets(op'.args[1].value), ret', exc')
           /\ op'.args[1].type = "bytes"
                => EndsAsParseOf(op'.args[1].value, ret', exc')]_vars

\* a str with a non-ASCII character was preprocessed while the collection
\* held a document
C22_Witness ==
    /\ op.name = "preprocess"
    /\ op.args[1] = PyStr(<<97, 233>>)
    /\ exc = "none"
    /\ ret = parse_and_convert(<<97, 195, 169>>)
    /\ Len(_documents) >= 1


\* the step is an add of one source under a new id whose construction of
\* the document raised
AddFailedInTransformation ==
    /\ op'.name = "add"
    /\ exc' # "none"
    /\ ~dict_contains(_documents, op'.args[1])
    /\ (op'.args[2] = None) # (op'.args[3] = None)

DecliningInstead(plugins) ==
    [i \in 1..Len(plugins) |->
        IF plugins[i].behaviour = "empty"
        THEN Plugin(plugins[i].plugin_name, "none")
        ELSE plugins[i]]

ReturnsEmptyInjection(plugin, node) ==
    CallClcPlugin(plugin, node) = PluginInjection(None, None)

InitFmt ==
    /\ input \in FmtInputs
    /\ target_resolver = ResolverHash
    /\ plugin_manager = NoPlugins
    /\ _documents = <<>>
    /\ op = Call("__init__", <<>>)
    /\ ret = None
    /\ exc = "none"
    /\ resolver_calls = <<>>
    /\ plugin_calls = <<>>
    /\ pc = [t \in Threads |-> "idle"]
    /\ lock = 0
    /\ pending = [t \in Threads |-> None]
    /\ completed = <<>>

FormattingReturns(name, element) ==
    /\ op' = Call(name, <<input.spectype, input.body>>)
    /\ ret' = IF IsRaised(element) THEN None ELSE Return(<<element>>)
    /\ exc' = IF IsRaised(element) THEN element.exc ELSE "none"
    /\ FrameMeta

ClcFormattingFactory ==
    /\ op.name # "clc.formatting_factory"
    /\ FormattingReturns(
        "clc.formatting_factory",
        formatting_factory(input.spectype, input.body))

FactoriesFormattingFactory ==
    /\ op.name # "factories.formatting_factory"
    /\ FormattingReturns(
        "factories.formatting_factory",
        factories_formatting_factory(input.spectype, input.body))

TemplatesFormattingFactory ==
    /\ op.name # "templates.formatting_factory"
    /\ FormattingReturns(
        "templates.formatting_factory",
        templates_formatting_factory(input.spectype, input.body))

NextFmt ==
    \/ ClcFormattingFactory
    \/ FactoriesFormattingFactory
    \/ TemplatesFormattingFactory

SpecFmt == InitFmt /\ [][NextFmt]_vars

\* the fixed tag of each of the six formatting kinds
FixedTag(name) ==
    CASE name = "STRONG" -> "strong"
      [] name = "EMPHASIS" -> "em"
      [] name = "STRIKE" -> "s"
      [] name = "UNDERLINE" -> "clc-ul"
      [] name = "PRE" -> "code"
      [] name = "QUOTE" -> "q"

FixedAttrs(name) ==
    IF name = "PRE" THEN <<HtmlAttr("class", "clc-fmt-pre")>> ELSE <<>>

WrappedOnce(name, body, value, exception) ==
    /\ exception = "none"
    /\ value.value =
        <<HtmlGenericElement(FixedTag(name), FixedAttrs(name), body)>>

FormattingFactoryNames ==
    {"clc.formatting_factory", "factories.formatting_factory",
     "templates.formatting_factory"}

\* C25 as stated: each of the three formatting factories, for each of the
\* six kinds, returns the one element with the kind's fixed tag and
\* attributes around the body unchanged, and fails for none of them.
C25_Original ==
    op.name \in FormattingFactoryNames
        => WrappedOnce(input.spectype.name, input.body, ret, exc)

\* what holds: the transformer's factory is total over the six kinds, and
\* the other two agree with it on every kind but QUOTE, for which they end
\* with TypeError
C25_FactoriesAgreeButQuote ==
    /\ op.name = "clc.formatting_factory"
        => WrappedOnce(input.spectype.name, input.body, ret, exc)
    /\ (/\ op.name \in FormattingFactoryNames
        /\ input.spectype.name # "QUOTE")
        => WrappedOnce(input.spectype.name, input.body, ret, exc)
    /\ (/\ op.name \in {"factories.formatting_factory",
                        "templates.formatting_factory"}
        /\ input.spectype.name = "QUOTE")
        => (exc = "TypeError" /\ ret = None)


(***************************************************************************)
(* The heading of one body at one depth, by each of the three heading      *)
(* factories.                                                              *)
(***************************************************************************)
InitHead ==
    /\ input \in HeadInputs
    /\ target_resolver = ResolverHash
    /\ plugin_manager = NoPlugins
    /\ _documents = <<>>
    /\ op = Call("__init__", <<>>)
    /\ ret = None
    /\ exc = "none"
    /\ resolver_calls = <<>>
    /\ plugin_calls = <<>>
    /\ pc = [t \in Threads |-> "idle"]
    /\ lock = 0
    /\ pending = [t \in Threads |-> None]
    /\ completed = <<>>

HeadingReturns(name, element) ==
    /\ op' = Call(name, <<IntVal(input.depth), input.body>>)
    /\ ret' = Return(<<element>>)
    /\ exc' = "none"
    /\ FrameMeta

HeadingFactory ==
    /\ op.name # "generic_templates.heading_factory"
    /\ HeadingReturns(
        "generic_templates.heading_factory",
        heading_factory(input.depth, input.body))

FactoriesHeadingFactory ==
    /\ op.name # "factories.heading_factory"
    /\ HeadingReturns(
        "factories.heading_factory",
        factories_heading_factory(input.depth, input.body))

TemplatesHeadingFactory ==
    /\ op.name # "templates.heading_factory"
    /\ HeadingReturns(
        "templates.heading_factory",
        templates_heading_factory(input.depth, input.body))

NextHead ==
    \/ HeadingFactory
    \/ FactoriesHeadingFactory
    \/ TemplatesHeadingFactory

SpecHead == InitHead /\ [][NextHead]_vars

Min(a, b) == IF a <= b THEN a ELSE b

Max(a, b) == IF a >= b THEN a ELSE b

HeadingTags == <<"h1", "h2", "h3", "h4", "h5", "h6">>

HeadingFactoryNames ==
    {"generic_templates.heading_factory", "factories.heading_factory",
     "templates.heading_factory"}

\* C26: for every integer depth, each heading factory returns the element
\* h<level> with level = min(6, max(1, depth + 1)), no attributes and the
\* body it was given; it never fails.
C26_HeadingLevelClamped ==
    op.name \in HeadingFactoryNames =>
        /\ exc = "none"
        /\ ret.value =
            <<HtmlGenericElement(
                HeadingTags[Min(6, Max(1, input.depth + 1))],
                <<>>, input.body)>>

\* a heading of a non-empty body was made at a depth outside 0..5 and came
\* out clamped
C26_Witness ==
    /\ op.name = "generic_templates.heading_factory"
    /\ input.depth \in {-2, 7}
    /\ ret.value[1].tag \in {"h1", "h6"}
    /\ input.body # <<>>


(***************************************************************************)
(* Nesting of the render tree against nesting of the source (SpecXf).      *)
(***************************************************************************)
ContainerTypes ==
    {"RichtextBlockNode", "Paragraph", "List_", "ListItem",
     "RichtextInlineNode"}

RECURSIVE SourceTexts(_)
\* the texts of a list of source nodes, in source order; an embedding's
\* content is a blob, not text
SourceTexts(nodes) ==
    IF nodes = <<>> THEN <<>>
    ELSE (CASE Head(nodes).type = "str" -> <<Head(nodes).value>>
            [] Head(nodes).type = "Annotation" -> <<Head(nodes).content>>
            [] Head(nodes).type = "EmbeddingBlockNode" -> <<>>
            [] OTHER -> SourceTexts(Head(nodes).content))
         \o SourceTexts(Tail(nodes))

RECURSIVE RenderedTexts(_)
\* the texts of a list of render nodes, in the order they are rendered
RenderedTexts(nodes) ==
    IF nodes = <<>> THEN <<>>
    ELSE (CASE Head(nodes).tpl = "PlaintextTemplate" -> <<Head(nodes).text>>
            [] Head(nodes).tpl = "ClcAnnotationTemplate" -> <<Head(nodes).text>>
            [] Head(nodes).tpl = "ClcEmbeddingBlocknodeTemplate" -> <<>>
            [] Head(nodes).tpl = "ClcListTemplate" ->
                    RenderedTexts(Head(nodes).items)
            [] OTHER -> RenderedTexts(Head(nodes).body))
         \o RenderedTexts(Tail(nodes))

\* the formatting element of an inline render node with a formatting
FormattingElement(template) ==
    IF template.nodeinfo.target # None THEN template.body[1].body[1]
    ELSE template.body[1]

\* the render nodes of the children of a transformed container
ContentSlot(node, template) ==
    IF node.type = "List_" THEN template.items
    ELSE IF node.type # "RichtextInlineNode" THEN template.body
    ELSE IF node.info = None THEN template.body
    ELSE IF node.info.formatting # None
    THEN FormattingElement(template).body
    ELSE IF node.info.target # None THEN template.body[1].body
    ELSE template.body

\* one render node per child, each built by the rule of its child and
\* holding that child's texts
MirrorsSource(content, slot) ==
    /\ Len(slot) = Len(content)
    /\ \A i \in 1..Len(content) :
        /\ slot[i].tpl = RuleOf(content[i].type)
        /\ RenderedTexts(<<slot[i]>>) = SourceTexts(<<content[i]>>)
        /\ content[i].type = "ListItem" => slot[i].index = content[i].index

IsFormatted(node) ==
    /\ node.type = "RichtextInlineNode"
    /\ node.info # None
    /\ node.info.formatting # None

\* the element of the outer formatting encloses, at each formatted child's
\* place, the element of that child's formatting
OuterEnclosesInner(node, template) ==
    IsFormatted(node) =>
        /\ FormattingElement(template).tag = FixedTag(node.info.formatting.name)
        /\ \A i \in 1..Len(node.content) :
            IsFormatted(node.content[i]) =>
                FormattingElement(FormattingElement(template).body[i]).tag
                    = FixedTag(node.content[i].info.formatting.name)

\* C27: a transformed richtext block, paragraph, list, list item or inline
\* node holds exactly one render node per child, in source order, each made
\* by the rule of its child and carrying the child's texts in their order;
\* an inline node with a formatting that holds an inline node with a
\* formatting renders as the outer formatting's element with the inner
\* formatting's element inside it at the child's place.
C27_NestingMirrorsSource ==
    (Transformed(input.subject.type) /\ input.subject.type \in ContainerTypes)
        => /\ MirrorsSource(
                input.subject.content,
                ContentSlot(input.subject, ret.value[1]))
           /\ OuterEnclosesInner(input.subject, ret.value[1])

\* bold holding a text and an emphasised inline node was transformed: strong
\* around the text and the em
C27_Witness ==
    /\ Transformed("RichtextInlineNode")
    /\ IsFormatted(input.subject)
    /\ input.subject.info.formatting.name = "STRONG"
    /\ input.subject.info.target = None
    /\ Len(input.subject.content) = 2
    /\ IsFormatted(input.subject.content[2])
    /\ ret.value[1].body[1].tag = "strong"
    /\ ret.value[1].body[1].body[1].tpl = "PlaintextTemplate"
    /\ ret.value[1].body[1].body[2].body[1].tag = "em"


(***************************************************************************)
(* Nodes, summaries and doc-texts with and without their optional parts.   *)
(***************************************************************************)
BareEmbeddings ==
    {EmbeddingBlockNode(1, None, content, None) :
        content \in {None, Str("print(1)")}}

OptionalNodeSubjects ==
    BlockSubjects \cup EmbeddingSubjects \cup TitledEmbeddingSubjects
        \cup BareEmbeddings \cup LeafInlines

DocTexts ==
    {DocText(value, markup_lang) :
        value \in {PyStr(<<>>), PyStr(<<97>>), PyStr(<<97, 233>>)},
        markup_lang \in {None, MarkupLang("CLEANCOPY"), MarkupLang("RST")}}

ModuleSummaries ==
    {ModuleSummary("alpha", docstring, None, {}) :
        docstring \in DocTexts \cup {None}}

MemberSummaryTypes == {"ClassSummary", "CallableSummary", "SignatureSummary"}

MemberSummaries ==
    {[type |-> type, docstring |-> docstring] :
        type \in MemberSummaryTypes, docstring \in DocTexts \cup {None}}

OptInputs ==
    {XfInput(subject, ResolverDistinct, manager) :
        subject \in OptionalNodeSubjects \cup DocTexts \cup ModuleSummaries
                        \cup MemberSummaries,
        manager \in {NoPlugins, TestPlugins}}

InitOpt ==
    /\ input \in OptInputs
    /\ target_resolver = input.doc_coll.target_resolver
    /\ plugin_manager = input.doc_coll.plugin_manager
    /\ _documents = <<>>
    /\ op = Call("__init__", <<>>)
    /\ ret = None
    /\ exc = "none"
    /\ resolver_calls = <<>>
    /\ plugin_calls = <<>>
    /\ pc = [t \in Threads |-> "idle"]
    /\ lock = 0
    /\ pending = [t \in Threads |-> None]
    /\ completed = <<>>

OptReturns(name, rendered) ==
    /\ op' = Call(name, <<input.subject>>)
    /\ ret' = IF AnyRaised(rendered) THEN None ELSE Return(rendered)
    /\ exc' = IF AnyRaised(rendered) THEN FirstRaised(rendered).exc ELSE "none"
    /\ FrameMeta

TransformOptional ==
    /\ op.name = "__init__"
    /\ input.subject \in OptionalNodeSubjects
    /\ OptReturns("transform", transform(input.subject, input.doc_coll))

TemplatifyDoctext ==
    /\ op.name = "__init__"
    /\ input.subject.type = "DocText"
    /\ OptReturns(
        "templatify_doctext",
        templatify_doctext(input.subject, input.doc_coll))

ModuleFromSummary ==
    /\ op.name = "__init__"
    /\ input.subject.type = "ModuleSummary"
    /\ OptReturns(
        "from_summary",
        <<ModuleSummaryTemplate_from_summary(input.subject, input.doc_coll)>>)

MemberFromSummary ==
    /\ op.name = "__init__"
    /\ input.subject.type \in MemberSummaryTypes
    /\ OptReturns(
        "summary_docstring",
        <<[tpl |-> "MemberSummaryTemplate",
           docstring |->
                summary_docstring(input.subject, input.doc_coll)]>>)

NextOpt ==
    \/ TransformOptional
    \/ TemplatifyDoctext
    \/ ModuleFromSummary
    \/ MemberFromSummary

SpecOpt == InitOpt /\ [][NextOpt]_vars

HasTitle(node) == node.type \in {"RichtextBlockNode", "EmbeddingBlockNode"}

\* the one code element of the inline preformatted class around the value
RawCode(value) ==
    <<HtmlGenericElement(
        "code", <<HtmlAttr("class", "clc-fmt-pre")>>,
        <<PlaintextTemplate(value)>>)>>

NodeSlotsEmpty(node, template) ==
    /\ (HasTitle(node) /\ node.title = None) => template.title = <<>>
    /\ node.info = None => template.metadata = <<>>
    /\ (node.type = "EmbeddingBlockNode" /\ node.content = None)
            => template.body = <<>>

\* C28: a block or embedding without title has an empty title slot, a node
\* without info an empty metadata slot, an embedding without content an
\* empty body, a summary without docstring an empty docstring slot, and a
\* doc-text without markup language is the one code element around its raw
\* value; none of these calls ends with an exception, and a summary whose
\* docstring is absent or has no markup language never fails either.
C28_MissingPartsGiveEmptySlots ==
    /\ op.name = "transform"
        => /\ exc = "none"
           /\ NodeSlotsEmpty(input.subject, ret.value[1])
    /\ (op.name \in {"from_summary", "summary_docstring"}
            /\ input.subject.docstring = None)
        => /\ exc = "none"
           /\ ret.value[1].docstring = <<>>
    /\ (op.name \in {"from_summary", "summary_docstring"}
            /\ input.subject.docstring # None
            /\ input.subject.docstring.markup_lang = None)
        => /\ exc = "none"
           /\ ret.value[1].docstring = RawCode(input.subject.docstring.value)
    /\ (op.name = "templatify_doctext" /\ input.subject.markup_lang = None)
        => /\ exc = "none"
           /\ ret.value = RawCode(input.subject.value)

\* an embedding with no title, no info and no content was transformed
C28_Witness ==
    /\ op.name = "transform"
    /\ input.subject.type = "EmbeddingBlockNode"
    /\ input.subject.title = None
    /\ input.subject.info = None
    /\ input.subject.content = None
    /\ ret.value[1].title = <<>>
    /\ ret.value[1].body = <<>>


(***************************************************************************)
(* Inclusion of the members of a module summary.                           *)
(***************************************************************************)
SummaryMetadatas ==
    {SummaryMetadata(extracted_inclusion, to_document, disowned) :
        extracted_inclusion \in {None, PyBool(TRUE), PyBool(FALSE)},
        to_document \in BOOLEAN, disowned \in BOOLEAN}

MemberNames == {"alpha", "beta"}

MemberType(name) ==
    IF name = "alpha" THEN "VariableSummary" ELSE "ClassSummary"

\* sets of members with distinct names, each with any metadata
MemberSets ==
    {{[type |-> MemberType(name), name |-> name, metadata |-> metadata[name]] :
        name \in names} :
        names \in SUBSET MemberNames,
        metadata \in [MemberNames -> SummaryMetadatas]}

IncInputs ==
    {XfInput(ModuleSummary("mod", None, None, members), ResolverDistinct,
             NoPlugins) :
        members \in MemberSets}

InitInc ==
    /\ input \in IncInputs
    /\ target_resolver = input.doc_coll.target_resolver
    /\ plugin_manager = input.doc_coll.plugin_manager
    /\ _documents = <<>>
    /\ op = Call("__init__", <<>>)
    /\ ret = None
    /\ exc = "none"
    /\ resolver_calls = <<>>
    /\ plugin_calls = <<>>
    /\ pc = [t \in Threads |-> "idle"]
    /\ lock = 0
    /\ pending = [t \in Threads |-> None]
    /\ completed = <<>>

InclusionReturns(name, metadata, included) ==
    /\ op' = Call(name, <<metadata>>)
    /\ ret' = Return(PyBool(included))
    /\ exc' = "none"
    /\ FrameMeta

ShouldInclude ==
    \E member \in input.subject.members :
        /\ op.name # "from_summary"
        /\ InclusionReturns(
            "templates.should_include", member.metadata,
            should_include(member.metadata))

TransformerShouldInclude ==
    \E member \in input.subject.members :
        /\ op.name # "from_summary"
        /\ InclusionReturns(
            "docnotes.should_include", member.metadata,
            DocnotesTransformer_should_include(member.metadata))

FromSummary ==
    /\ op.name # "from_summary"
    /\ OptReturns(
        "from_summary",
        <<ModuleSummaryTemplate_from_summary(input.subject, input.doc_coll)>>)

NextInc ==
    \/ ShouldInclude
    \/ TransformerShouldInclude
    \/ FromSummary

SpecInc == InitInc /\ [][NextInc]_vars

\* the precedence: an explicit True, or nothing explicit and documented and
\* not disowned
IncludedByPrecedence(metadata) ==
    \/ metadata.extracted_inclusion = PyBool(TRUE)
    \/ /\ metadata.extracted_inclusion = None
       /\ metadata.to_document
       /\ ~metadata.disowned

RenderedMemberNames(template) ==
    {template.members[i].name : i \in 1..Len(template.members)}

\* C29: both should_include return True for an explicit True, False for an
\* explicit False, and (to_document and not disowned) when nothing is
\* explicit; the members a module summary renders are, one template each,
\* exactly the members for which that holds.
C29_InclusionPrecedence ==
    /\ op.name \in {"templates.should_include", "docnotes.should_include"}
        => ret.value = PyBool(IncludedByPrecedence(op.args[1]))
    /\ op.name = "from_summary"
        => /\ exc = "none"
           /\ RenderedMemberNames(ret.value[1]) =
                {member.name : member \in
                    {m \in input.subject.members :
                        IncludedByPrecedence(m.metadata)}}
           /\ Len(ret.value[1].members)
                = Cardinality(RenderedMemberNames(ret.value[1]))

\* a summary was rendered with one member kept by an explicit True although
\* disowned, and one dropped by an explicit False although documented
C29_Witness ==
    /\ op.name = "from_summary"
    /\ Len(ret.value[1].members) = 1
    /\ \E kept, dropped \in input.subject.members :
        /\ kept.metadata = SummaryMetadata(PyBool(TRUE), FALSE, TRUE)
        /\ dropped.metadata = SummaryMetadata(PyBool(FALSE), TRUE, FALSE)
        /\ ret.value[1].members[1].name = kept.name


(***************************************************************************)
(* Documents: a root block inside a Document wrapper, each with or without *)
(* an info of its own.                                                     *)
(***************************************************************************)
AlphaBetaMetadata ==
    << <<"alpha", StrDataType("x")>>, <<"beta", NullDataType>> >>

DocumentInfos ==
    {None} \cup {BlockNodeInfo(None, metadata) :
                    metadata \in {<<>>, IdMetadata, AlphaBetaMetadata}}

DocumentRoots ==
    {RichtextBlockNode(0, title, content, info) :
        title \in {None, Title},
        content \in {<<>>, <<PlainParagraph>>, <<StrongParagraph>>},
        info \in DocumentInfos}

DocInputs ==
    {XfInput(ClcDocument(root, info), ResolverDistinct, manager) :
        root \in DocumentRoots, info \in DocumentInfos,
        manager \in {NoPlugins, TestPlugins}}

InitDoc ==
    /\ input \in DocInputs
    /\ target_resolver = input.doc_coll.target_resolver
    /\ plugin_manager = input.doc_coll.plugin_manager
    /\ _documents = <<>>
    /\ op = Call("__init__", <<>>)
    /\ ret = None
    /\ exc = "none"
    /\ resolver_calls = <<>>
    /\ plugin_calls = <<>>
    /\ pc = [t \in Threads |-> "idle"]
    /\ lock = 0
    /\ pending = [t \in Threads |-> None]
    /\ completed = <<>>

\* from_document given the Document wrapper
FromDocument ==
    /\ op.name # "from_document"
    /\ op' = Call("from_document", <<input.subject>>)
    /\ ret' = Return(transform(input.subject, input.doc_coll))
    /\ exc' = "none"
    /\ FrameMeta

\* from_document given the root block itself
FromDocumentOfRoot ==
    /\ op.name # "from_ast_node"
    /\ op' = Call("from_ast_node", <<input.subject.root>>)
    /\ ret' = Return(transform(input.subject.root, input.doc_coll))
    /\ exc' = "none"
    /\ FrameMeta

NextDoc ==
    \/ FromDocument
    \/ FromDocumentOfRoot

SpecDoc == InitDoc /\ [][NextDoc]_vars

\* the render node of the document's root block, transformed on its own
RootRendered == templatify(input.subject.root, input.doc_coll)

\* the entries a block renders for the info: one per key of its mapping, in
\* the mapping's order
EntriesOfInfo(entries, info) ==
    /\ KeysOf(entries) = [i \in 1..Len(info.metadata) |-> info.metadata[i][1]]
    /\ entries =
        templatify(
            RichtextBlockNode(0, None, <<>>, info), input.doc_coll).metadata

SameButMetadata(template, other) ==
    /\ template.tpl = other.tpl
    /\ template.title = other.title
    /\ template.body = other.body
    /\ template.role_if_root = other.role_if_root
    /\ template.nodeinfo = other.nodeinfo
    /\ template.plugin_attrs = other.plugin_attrs
    /\ template.plugin_widgets = other.plugin_widgets

\* C30: the render node of a Document is the render node of its root block
\* in title, body, role and node info; its metadata entries are those of the
\* document's info when the document has one, the root block's otherwise.
C30_DocumentMetadataWins ==
    op.name = "from_document"
        => /\ exc = "none"
           /\ Len(ret.value) = 1
           /\ SameButMetadata(ret.value[1], RootRendered)
           /\ ret.value[1].nodeinfo = input.subject.root.info
           /\ input.subject.info # None
                => EntriesOfInfo(ret.value[1].metadata, input.subject.info)
           /\ input.subject.info = None
                => ret.value[1].metadata = RootRendered.metadata

\* a document and its root block had different, non-empty metadata and the
\* document's entries were the ones rendered
C30_Witness ==
    /\ op.name = "from_document"
    /\ input.subject.info # None
    /\ input.subject.root.info # None
    /\ input.subject.info.metadata = IdMetadata
    /\ input.subject.root.info.metadata = AlphaBetaMetadata
    /\ KeysOf(ret.value[1].metadata) = <<"id">>
    /\ ret.value[1].nodeinfo = input.subject.root.info

====
